---- MODULE Spec2Model ----
(***************************************************************************)
(* Hybrid conversational memory (package memory, HybridMemory): a          *)
(* short-term per-user message buffer (InMemory) in front of a long-term   *)
(* vector store, with migration on the write path (moveToLongTerm) and a   *)
(* hybrid lexical + vector search (SearchWithOptions).                     *)
(*                                                                         *)
(* Numbers.  Weights, MinScore and vector scores are float64 in the code;  *)
(* here they are integers counted in tenths (0.7 is 7).  Inside one search *)
(* every combined score has the same denominator 10 * q * W, where q is    *)
(* the number of query words (1 when there is none) and W the sum of the   *)
(* two effective weights, so a score is kept as its integer numerator over *)
(* that denominator and compared exactly.                                  *)
(*                                                                         *)
(* Text.  A string is a sequence of one-character strings.                 *)
(***************************************************************************)
EXTENDS Integers, Sequences, FiniteSets, TLC

VARIABLES
    inst,        \* what NewHybridMemory returned: "unbuilt", "failed", "ok"
    rawConfig,   \* the HybridMemoryConfig handed to NewHybridMemory
    config,      \* m.config: the config after the defaults were set
    shortTerm,   \* m.shortTerm: user id -> sequence of messages
    longTerm,    \* m.longTerm: the vector store, document id -> document
    lastSearch,  \* the call just made and what it returned, when it was a search
    addLog,      \* history: per user, the messages added since the last Clear
    everAdded,   \* history: per user, every message ever added
    written,     \* history: per user and id, the number of successful long-term writes
    calls,       \* history: the number of Add and of Clear calls so far
    faults,      \* history: the kinds of collaborator call that have failed
    touched,     \* history: the kinds of collaborator call Add has made
    pc,          \* concurrent callers: where each goroutine stands in its call
    mu,          \* m.mu: the goroutine holding Lock, the goroutines holding RLock
    addCalled,   \* concurrent callers: the goroutines that have called Add
    lastRet,     \* concurrent callers: what the step just made returned, when it
                 \* was the read of a read-only call
    lastScore,   \* the text score just computed, for a query and a text of any kind
    hookRun,     \* the call of ExecuteToolPreHooks or ExecuteToolPostHooks under way
    lastMerge    \* history: the hits and the result map of the search just made,
                 \* when it was traced

vars == <<inst, rawConfig, config, shortTerm, longTerm, lastSearch,
          addLog, everAdded, written, calls, faults, touched,
          pc, mu, addCalled, lastRet, lastScore, hookRun, lastMerge>>

\* what the calls made one after the other leave alone
concVars == <<pc, mu, addCalled, lastRet, lastScore, hookRun, lastMerge>>

----------------------------------------------------------------------------
(* Bounds of the model *)

\* the number of hooks in a list handed to ExecuteToolPreHooks or
\* ExecuteToolPostHooks
MaxHooks == 3

\* the number of documents of the collection a memory is built on
MaxHits == 6

\* the number of Add calls in a behaviour
MaxAdds == 3

\* the number of Clear calls in a behaviour
MaxClears == 1

\* the number of Add calls in a behaviour that also searches
MaxSearchAdds == 2

\* the length of the queries and texts a text score is computed for
MaxTextLen == 3

----------------------------------------------------------------------------
(* Values *)

RoleSystem == "system"
RoleUser == "user"
RoleAssistant == "assistant"

\* the sentinel user id used when the caller passes none
DefaultUserID == "default"

\* the variadic userID argument: no value, or one
UserArgs == {<<>>, <<"u1">>}

getUserID(userID) == IF Len(userID) > 0 THEN userID[1] ELSE DefaultUserID

Users == {getUserID(a) : a \in UserArgs}

Ids == {"m1", "m2", "m3"}

\* "a b", "A" and "b"
TextAB == <<"a", " ", "b">>
TextUpperA == <<"A">>
TextB == <<"b">>

\* the messages callers add for a user; ids are unique within a user only,
\* so the two users' messages share ids and differ in role and content
MsgPool(uid) ==
    IF uid = DefaultUserID
    THEN { [id |-> "m1", role |-> RoleUser,      content |-> TextAB],
           [id |-> "m2", role |-> RoleSystem,    content |-> TextUpperA],
           [id |-> "m3", role |-> RoleAssistant, content |-> TextB] }
    ELSE { [id |-> "m1", role |-> RoleAssistant, content |-> TextB],
           [id |-> "m2", role |-> RoleSystem,    content |-> TextUpperA],
           [id |-> "m3", role |-> RoleUser,      content |-> TextAB] }

\* the queries callers search for: "a B" and "b"
Queries == { <<"a", " ", "B">>, <<"b">> }

\* lastSearch when the call just made was no search
NoSearch == [called |-> FALSE]

\* the goroutines that call the instance at the same time
Goroutines == {"g1", "g2", "g3"}

\* m.mu.writer when no goroutine holds Lock
NoWriter == "none"

\* lastRet when no read-only call has returned
NoReturn == [op |-> "none"]

\* lastScore when no score was computed
NoScore == [called |-> FALSE]

\* lastMerge when the call just made was no traced search
NoMerge == [called |-> FALSE]

\* hookRun when no hooks are being executed
NoHookRun == [state |-> "none"]

Max(a, b) == IF a >= b THEN a ELSE b

Range(s) == {s[i] : i \in 1..Len(s)}

----------------------------------------------------------------------------
(* strings.ToLower, strings.Fields, calculateTextSimilarity *)

ToLowerChar(c) == IF c = "A" THEN "a" ELSE IF c = "B" THEN "b" ELSE c

ToLower(s) == [i \in 1..Len(s) |-> ToLowerChar(s[i])]

IsSpace(c) == c = " "

RECURSIVE FieldsFrom(_, _, _, _)
FieldsFrom(s, i, cur, acc) ==
    IF i > Len(s)
    THEN IF cur = <<>> THEN acc ELSE Append(acc, cur)
    ELSE IF IsSpace(s[i])
         THEN FieldsFrom(s, i + 1, <<>>, IF cur = <<>> THEN acc ELSE Append(acc, cur))
         ELSE FieldsFrom(s, i + 1, Append(cur, s[i]), acc)

Fields(s) == FieldsFrom(s, 1, <<>>, <<>>)

\* calculateTextSimilarity that matches a query word against the beginning of
\* a text word ("fox" matches "foxes")
calculateTextSimilarityPrefix(query, text) ==
    LET queryWords == Fields(query)
        textWords == Fields(text)
        StartsWith(t, w) == Len(w) <= Len(t) /\ SubSeq(t, 1, Len(w)) = w
        matches == Cardinality({i \in 1..Len(queryWords) :
                                  \E j \in 1..Len(textWords) :
                                     StartsWith(textWords[j], queryWords[i])})
    IN  IF Len(queryWords) = 0
        THEN [num |-> 0, den |-> 1]
        ELSE [num |-> matches, den |-> Len(queryWords)]

\* calculateTextSimilarity that counts every occurrence of a query word in
\* the text
calculateTextSimilarityCountingRepeats(query, text) ==
    LET queryWords == Fields(query)
        textWords == Fields(text)
        matches == Cardinality({<<i, j>> \in (1..Len(queryWords)) \X (1..Len(textWords)) :
                                  queryWords[i] = textWords[j]})
    IN  IF Len(queryWords) = 0
        THEN [num |-> 0, den |-> 1]
        ELSE [num |-> matches, den |-> Len(queryWords)]

\* the score is num / den; den is the number of query words
calculateTextSimilarity(query, text) ==
    LET queryWords == Fields(query)
        textWordSet == {Fields(text)[i] : i \in 1..Len(Fields(text))}
        matches == Cardinality({i \in 1..Len(queryWords) : queryWords[i] \in textWordSet})
    IN  IF Len(queryWords) = 0
        THEN [num |-> 0, den |-> 1]
        ELSE [num |-> matches, den |-> Len(queryWords)]

----------------------------------------------------------------------------
(* The short-term store, InMemory *)

NewInMemory(maxSize) == [u \in Users |-> <<>>]

InMemoryAdd(st, message, uid) == [st EXCEPT ![uid] = Append(@, message)]

InMemoryGetMessages(st, uid) == st[uid]

InMemoryClear(st, uid) == [st EXCEPT ![uid] = <<>>]

InMemorySize(st, uid) == Len(st[uid])

----------------------------------------------------------------------------
(* The vector store behind m.longTerm: documents keyed by id *)

EmptyDB == [i \in {} |-> 0]

\* Get(ctx, ids) for one id: the stored documents with that id
VectorDBGet(db, id) == IF id \in DOMAIN db THEN <<db[id]>> ELSE <<>>

\* Add(ctx, documents): each document replaces the entry under its id
RECURSIVE VectorDBAdd(_, _)
VectorDBAdd(db, documents) ==
    IF documents = <<>>
    THEN db
    ELSE LET doc == Head(documents)
             put == [i \in (DOMAIN db) \cup {doc.id} |->
                        IF i = doc.id THEN doc ELSE db[i]]
         IN  VectorDBAdd(put, Tail(documents))

\* the documents Query may return under filter {"user_id": uid}
VectorDBMatching(db, uid) == {db[i] : i \in {j \in DOMAIN db : db[j].user_id = uid}}

----------------------------------------------------------------------------
(* NewHybridMemory *)

\* the configs callers build; VectorDB and Embedder are TRUE when not nil
ConfigPool ==
    [ VectorDB : BOOLEAN, Embedder : BOOLEAN,
      MaxShortTermMessages : {0},
      LongTermThreshold : {-1, 0, 1, 2},
      DefaultVectorWeight : {0}, DefaultTextWeight : {0}, DefaultMinScore : {0} ]
    \cup
    [ VectorDB : {TRUE}, Embedder : {TRUE},
      MaxShortTermMessages : {2},
      LongTermThreshold : {1},
      DefaultVectorWeight : {5}, DefaultTextWeight : {5}, DefaultMinScore : {3} ]

NoConfig ==
    [ VectorDB |-> FALSE, Embedder |-> FALSE, MaxShortTermMessages |-> 0,
      LongTermThreshold |-> 0, DefaultVectorWeight |-> 0, DefaultTextWeight |-> 0,
      DefaultMinScore |-> 0 ]

DefaultMaxShortTermMessages == 100
DefaultVectorWeightTenths == 7
DefaultTextWeightTenths == 3
DefaultMinScoreTenths == 1

\* validateConfig with the Embedder check left out
validateConfigNoEmbedder(c) ==
    IF ~c.VectorDB THEN "VectorDB is required" ELSE "nil"

\* the error validateConfig returns, "nil" for none
validateConfig(c) ==
    IF ~c.VectorDB THEN "VectorDB is required"
    ELSE IF ~c.Embedder THEN "Embedder is required"
    ELSE "nil"

\* the "Set defaults" block of NewHybridMemory
SetDefaults(c) ==
    [ c EXCEPT
        !.MaxShortTermMessages = IF @ <= 0 THEN DefaultMaxShortTermMessages ELSE @,
        !.DefaultVectorWeight = IF @ <= 0 THEN DefaultVectorWeightTenths ELSE @,
        !.DefaultTextWeight = IF @ <= 0 THEN DefaultTextWeightTenths ELSE @,
        !.DefaultMinScore = IF @ <= 0 THEN DefaultMinScoreTenths ELSE @ ]

NewHybridMemory(c) ==
    /\ inst = "unbuilt"
    /\ rawConfig' = c
    /\ IF validateConfig(c) # "nil"
       THEN /\ inst' = "failed"
            /\ UNCHANGED <<config, shortTerm, longTerm>>
       ELSE /\ inst' = "ok"
            /\ config' = SetDefaults(c)
            /\ shortTerm' = NewInMemory(SetDefaults(c).MaxShortTermMessages)
            /\ longTerm' = EmptyDB
    /\ UNCHANGED <<lastSearch, addLog, everAdded, written, calls, faults, touched>>
    /\ UNCHANGED concVars

----------------------------------------------------------------------------
(* Add and moveToLongTerm *)

\* messagesToMove with the cut one message too early
messagesToMoveOffByOne(allMessages, threshold) ==
    SubSeq(allMessages, 1, Len(allMessages) - threshold - 1)

\* allMessages[:len(allMessages)-LongTermThreshold]
messagesToMove(allMessages, threshold) ==
    SubSeq(allMessages, 1, Len(allMessages) - threshold)

\* IsNotSystem with the role test left out
IsNotSystemAlways(msg) == TRUE

IsNotSystem(msg) == msg.role # RoleSystem

\* the loop that drops the system messages
toMove(allMessages, threshold) ==
    SelectSeq(messagesToMove(allMessages, threshold), IsNotSystem)

\* "Skip if already in long-term": the lookup answered, and found the id
AlreadyStored(db, id, getErr) == id \notin getErr /\ Len(VectorDBGet(db, id)) > 0

\* NewDocument that leaves the role out of the metadata
NewDocumentWithoutRole(msg, userID) ==
    [id |-> msg.id, content |-> msg.content, user_id |-> userID, role |-> ""]

NewDocument(msg, userID) ==
    [id |-> msg.id, content |-> msg.content, user_id |-> userID, role |-> msg.role]

\* the loop over toMove: getErr are the ids whose lookup returns an error,
\* embErr the ids whose embedding fails
RECURSIVE documents(_, _, _, _, _)
documents(msgs, db, userID, getErr, embErr) ==
    IF msgs = <<>>
    THEN <<>>
    ELSE LET msg == Head(msgs)
             rest == documents(Tail(msgs), db, userID, getErr, embErr)
         IN  IF AlreadyStored(db, msg.id, getErr) THEN rest
             ELSE IF msg.id \in embErr THEN rest
             ELSE <<NewDocument(msg, userID)>> \o rest

\* moveToLongTerm that gives the whole pass up when one embedding fails
moveToLongTermAbortOnEmbedError(st, db, userID, getErr, embErr) ==
    LET allMessages == InMemoryGetMessages(st, userID)
        cands == toMove(allMessages, config.LongTermThreshold)
    IN  IF Len(allMessages) <= config.LongTermThreshold
        THEN <<>>
        ELSE IF \E i \in 1..Len(cands) :
                    ~AlreadyStored(db, cands[i].id, getErr) /\ cands[i].id \in embErr
             THEN <<>>
             ELSE documents(cands, db, userID, getErr, embErr)

\* the batch moveToLongTerm hands to m.longTerm.Add; empty when it returns early
moveToLongTerm(st, db, userID, getErr, embErr) ==
    LET allMessages == InMemoryGetMessages(st, userID)
    IN  IF Len(allMessages) <= config.LongTermThreshold
        THEN <<>>
        ELSE documents(toMove(allMessages, config.LongTermThreshold),
                       db, userID, getErr, embErr)

RECURSIVE CountWrites(_, _)
CountWrites(w, docs) ==
    IF docs = <<>> THEN w
    ELSE CountWrites([w EXCEPT ![Head(docs).user_id][Head(docs).id] = @ + 1], Tail(docs))

\* TieringEnabled with the comparison off by one: a threshold of 0 enables it
TieringEnabledAtZero == config.LongTermThreshold >= 0

\* "if m.config.LongTermThreshold > 0" in Add
TieringEnabled == config.LongTermThreshold > 0

\* the ids whose lookup and embedding Add(message, userID) may ask for
LookedUp(message, userID) ==
    LET uid == getUserID(userID)
        allMessages == InMemoryGetMessages(InMemoryAdd(shortTerm, message, uid), uid)
    IN  IF TieringEnabled /\ Len(allMessages) > config.LongTermThreshold
        THEN {m.id : m \in Range(toMove(allMessages, config.LongTermThreshold))}
        ELSE {}

\* AddToShortTerm that assigns the bucket instead of appending to it
AddToShortTermReplacing(message, uid) == [shortTerm EXCEPT ![uid] = <<message>>]

\* AddToShortTerm with the user id dropped: every message lands in the default bucket
AddToShortTermDefaultUser(message, uid) == InMemoryAdd(shortTerm, message, DefaultUserID)

\* AddToShortTerm that keeps the newest MaxShortTermMessages messages only
AddToShortTermCapped(message, uid) ==
    LET st == InMemoryAdd(shortTerm, message, uid)
    IN  IF Len(st[uid]) > config.MaxShortTermMessages
        THEN [st EXCEPT ![uid] = Tail(@)]
        ELSE st

\* m.shortTerm.Add(message, uid)
AddToShortTerm(message, uid) == InMemoryAdd(shortTerm, message, uid)

\* the collaborator calls a migration pass makes: a lookup for each candidate,
\* an embedding for each candidate the lookup does not find, one batch write
\* when a document was built
CollaboratorCalls(candidates, batch, getErr) ==
    (IF Len(candidates) > 0 THEN {"get"} ELSE {})
    \cup (IF \E i \in 1..Len(candidates) :
                ~AlreadyStored(longTerm, candidates[i].id, getErr)
          THEN {"embed"} ELSE {})
    \cup (IF Len(batch) > 0 THEN {"add"} ELSE {})

\* the collaborator calls of a migration pass that failed
FailedCalls(candidates, batch, getErr, embErr, writeOk) ==
    (IF getErr \cap {m.id : m \in Range(candidates)} # {} THEN {"get"} ELSE {})
    \cup (IF \E m \in Range(candidates) :
                ~AlreadyStored(longTerm, m.id, getErr) /\ m.id \in embErr
          THEN {"embed"} ELSE {})
    \cup (IF Len(batch) > 0 /\ ~writeOk THEN {"write"} ELSE {})

\* Add whose migration pass removes the messages it wrote from short-term
AddPruningMigrated(message, userID, getErr, embErr, writeOk) ==
    LET uid == getUserID(userID)
        st == AddToShortTerm(message, uid)
        migrates == TieringEnabled
        batch == IF migrates
                 THEN moveToLongTerm(st, longTerm, uid, getErr, embErr)
                 ELSE <<>>
        candidates == IF migrates /\ Len(InMemoryGetMessages(st, uid)) > config.LongTermThreshold
                      THEN toMove(InMemoryGetMessages(st, uid), config.LongTermThreshold)
                      ELSE <<>>
        Kept(msg) == \A i \in 1..Len(batch) : batch[i].id # msg.id
    IN  /\ inst = "ok"
        /\ calls.adds < MaxAdds
        /\ IF Len(batch) > 0 /\ writeOk
           THEN /\ shortTerm' = [st EXCEPT ![uid] = SelectSeq(@, Kept)]
                /\ longTerm' = VectorDBAdd(longTerm, batch)
                /\ written' = CountWrites(written, batch)
           ELSE /\ shortTerm' = st
                /\ UNCHANGED <<longTerm, written>>
        /\ addLog' = [addLog EXCEPT ![uid] = Append(@, message)]
        /\ everAdded' = [everAdded EXCEPT ![uid] = @ \cup {message}]
        /\ calls' = [calls EXCEPT !.adds = @ + 1]
        /\ faults' = faults \cup FailedCalls(candidates, batch, getErr, embErr, writeOk)
        /\ touched' = touched \cup CollaboratorCalls(candidates, batch, getErr)
        /\ lastSearch' = NoSearch
        /\ UNCHANGED <<inst, rawConfig, config>>
        /\ UNCHANGED concVars

Add(message, userID, getErr, embErr, writeOk) ==
    LET uid == getUserID(userID)
        st == AddToShortTerm(message, uid)
        migrates == TieringEnabled
        batch == IF migrates
                 THEN moveToLongTerm(st, longTerm, uid, getErr, embErr)
                 ELSE <<>>
        candidates == IF migrates /\ Len(InMemoryGetMessages(st, uid)) > config.LongTermThreshold
                      THEN toMove(InMemoryGetMessages(st, uid), config.LongTermThreshold)
                      ELSE <<>>
    IN  /\ inst = "ok"
        /\ calls.adds < MaxAdds
        /\ shortTerm' = st
        /\ IF Len(batch) > 0 /\ writeOk
           THEN /\ longTerm' = VectorDBAdd(longTerm, batch)
                /\ written' = CountWrites(written, batch)
           ELSE UNCHANGED <<longTerm, written>>
        /\ addLog' = [addLog EXCEPT ![uid] = Append(@, message)]
        /\ everAdded' = [everAdded EXCEPT ![uid] = @ \cup {message}]
        /\ calls' = [calls EXCEPT !.adds = @ + 1]
        /\ faults' = faults \cup FailedCalls(candidates, batch, getErr, embErr, writeOk)
        /\ touched' = touched \cup CollaboratorCalls(candidates, batch, getErr)
        /\ lastSearch' = NoSearch
        /\ UNCHANGED <<inst, rawConfig, config>>
        /\ UNCHANGED concVars

----------------------------------------------------------------------------
(* Clear, GetMessages, Size *)

\* Clear that also deletes the user's entries from the long-term store
ClearBothTiers(userID) ==
    LET uid == getUserID(userID)
        kept == {i \in DOMAIN longTerm : longTerm[i].user_id # uid}
    IN  /\ inst = "ok"
        /\ calls.clears < MaxClears
        /\ shortTerm' = InMemoryClear(shortTerm, uid)
        /\ longTerm' = [i \in kept |-> longTerm[i]]
        /\ addLog' = [addLog EXCEPT ![uid] = <<>>]
        /\ calls' = [calls EXCEPT !.clears = @ + 1]
        /\ lastSearch' = NoSearch
        /\ UNCHANGED <<inst, rawConfig, config, everAdded, written, faults, touched>>
        /\ UNCHANGED concVars

\* Clear with the user id dropped: the default bucket is cleared
ClearDefaultUser(userID) ==
    /\ inst = "ok"
    /\ calls.clears < MaxClears
    /\ shortTerm' = InMemoryClear(shortTerm, DefaultUserID)
    /\ addLog' = [addLog EXCEPT ![getUserID(userID)] = <<>>]
    /\ calls' = [calls EXCEPT !.clears = @ + 1]
    /\ lastSearch' = NoSearch
    /\ UNCHANGED <<inst, rawConfig, config, longTerm, everAdded, written, faults, touched>>
    /\ UNCHANGED concVars

Clear(userID) ==
    LET uid == getUserID(userID)
    IN  /\ inst = "ok"
        /\ calls.clears < MaxClears
        /\ shortTerm' = InMemoryClear(shortTerm, uid)
        /\ addLog' = [addLog EXCEPT ![uid] = <<>>]
        /\ calls' = [calls EXCEPT !.clears = @ + 1]
        /\ lastSearch' = NoSearch
        /\ UNCHANGED <<inst, rawConfig, config, longTerm, everAdded, written, faults, touched>>
        /\ UNCHANGED concVars

GetMessages(userID) == InMemoryGetMessages(shortTerm, getUserID(userID))

Size(userID) == InMemorySize(shortTerm, getUserID(userID))

----------------------------------------------------------------------------
(* Search and SearchWithOptions *)

DefaultLimit == 5

\* the SearchOptions callers pass
OptionPool ==
    { [Limit |-> 0, MinScore |-> 0, VectorWeight |-> 0, TextWeight |-> 0,
       FilterByRole |-> <<>>, IncludeRecent |-> FALSE, RecentCount |-> 0],
      [Limit |-> 1, MinScore |-> -1, VectorWeight |-> 0, TextWeight |-> 0,
       FilterByRole |-> <<>>, IncludeRecent |-> TRUE, RecentCount |-> 1],
      [Limit |-> 3, MinScore |-> 2, VectorWeight |-> 2, TextWeight |-> 6,
       FilterByRole |-> <<RoleUser>>, IncludeRecent |-> FALSE, RecentCount |-> 0] }

\* the limits callers pass to Search
LimitPool == {2}

\* what the vector store reports for the hits of one query: a similarity
\* score, in tenths, and whether the hits carry their role metadata
AnswerKinds ==
    { [score |-> 6, withRole |-> TRUE],
      [score |-> 6, withRole |-> FALSE],
      [score |-> 0, withRole |-> TRUE] }

\* the "Set defaults" block of SearchWithOptions
ResolveOptions(options) ==
    [ options EXCEPT
        !.Limit = IF @ <= 0 THEN DefaultLimit ELSE @,
        !.VectorWeight = IF @ <= 0 THEN config.DefaultVectorWeight ELSE @,
        !.TextWeight = IF @ <= 0 THEN config.DefaultTextWeight ELSE @,
        !.MinScore = IF @ < 0 THEN config.DefaultMinScore ELSE @ ]

\* totalWeight; the normalized weights are VectorWeight / totalWeight and
\* TextWeight / totalWeight
totalWeight(opts) == opts.VectorWeight + opts.TextWeight

\* the number of query words, the denominator of every text score of a search
QueryDen(query) == Max(1, Len(Fields(ToLower(query))))

\* the common denominator of the combined scores of a search
ScoreDen(query, opts) == 10 * QueryDen(query) * totalWeight(opts)

\* textScore * options.TextWeight, over ScoreDen
TextPart(query, opts, textNum) == 10 * textNum * opts.TextWeight

\* vectorScore * options.VectorWeight, over ScoreDen
VectorPart(query, opts, vectorScore) == QueryDen(query) * vectorScore * opts.VectorWeight

\* searchShortTerm: one result per message with a text score above 0
ShortTermResult(msg, query, opts) ==
    LET textScore == calculateTextSimilarity(ToLower(query), ToLower(msg.content))
    IN  [ message |-> msg,
          score |-> TextPart(query, opts, textScore.num),
          vectorScore |-> 0,
          textScore |-> textScore.num,
          source |-> "short_term" ]

\* searchShortTerm over a stale listing: the newest message is not seen yet
searchShortTermStale(query, userID, opts) ==
    LET all == InMemoryGetMessages(shortTerm, userID)
        messages == SubSeq(all, 1, Len(all) - 1)
        Hit(msg) == ShortTermResult(msg, query, opts).textScore > 0
        found == SelectSeq(messages, Hit)
    IN  [i \in 1..Len(found) |-> ShortTermResult(found[i], query, opts)]

searchShortTerm(query, userID, opts) ==
    LET messages == InMemoryGetMessages(shortTerm, userID)
        Hit(msg) == ShortTermResult(msg, query, opts).textScore > 0
        found == SelectSeq(messages, Hit)
    IN  [i \in 1..Len(found) |-> ShortTermResult(found[i], query, opts)]

\* what Query may answer under filter {"user_id": userID} and the given limit:
\* a set of hits [id, content, role, score]; role is "" when the hit carries no
\* role metadata
QueryAnswers(db, userID, limit) ==
    { {[id |-> d.id, content |-> d.content,
        role |-> IF kind.withRole THEN d.role ELSE "", score |-> kind.score] : d \in S} :
      S \in {T \in SUBSET VectorDBMatching(db, userID) : Cardinality(T) <= limit},
      kind \in AnswerKinds }

\* searchLongTerm: one result per hit
LongTermResult(vr, query, opts) ==
    [ message |-> [id |-> vr.id, content |-> vr.content,
                   role |-> IF vr.role # "" THEN vr.role ELSE RoleAssistant],
      score |-> VectorPart(query, opts, vr.score),
      vectorScore |-> vr.score,
      textScore |-> 0,
      source |-> "long_term" ]

searchLongTerm(hits, query, opts) == {LongTermResult(vr, query, opts) : vr \in hits}

\* the first short-term result of each id: resultMap after step 1
RECURSIVE FirstById(_, _)
FirstById(results, seen) ==
    IF results = <<>> THEN {}
    ELSE IF Head(results).message.id \in seen
         THEN FirstById(Tail(results), seen)
         ELSE {Head(results)} \cup FirstById(Tail(results), seen \cup {Head(results).message.id})

\* MergeLongTerm in which a long-term result takes the place of the
\* short-term result of the same id
MergeLongTermOverwriting(resultMap, longTermResults, query, opts) ==
    { r \in resultMap : \A lr \in longTermResults : lr.message.id # r.message.id }
    \cup longTermResults

\* step 2: a long-term result joins the short-term result of the same id, or
\* enters the map
MergeLongTerm(resultMap, longTermResults, query, opts) ==
    { IF \E lr \in longTermResults :
            lr.message.id = r.message.id /\ lr.vectorScore > r.vectorScore
      THEN LET lr == CHOOSE x \in longTermResults : x.message.id = r.message.id
           IN  [ r EXCEPT
                   !.vectorScore = lr.vectorScore,
                   !.score = TextPart(query, opts, r.textScore)
                             + VectorPart(query, opts, lr.vectorScore) ]
      ELSE r : r \in resultMap }
    \cup
    { lr \in longTermResults : \A r \in resultMap : r.message.id # lr.message.id }

\* result.Score < options.MinScore
BelowMinScore(score, query, opts) == 10 * score < opts.MinScore * ScoreDen(query, opts)

RoleMatch(role, filter) == \E i \in 1..Len(filter) : filter[i] = role

\* Filtered with the role filter left out
FilteredNoRole(resultMap, query, opts) ==
    { r \in resultMap : ~BelowMinScore(r.score, query, opts) }

\* step 3: the MinScore and the role filter
Filtered(resultMap, query, opts) ==
    { r \in resultMap :
        /\ ~BelowMinScore(r.score, query, opts)
        /\ (Len(opts.FilterByRole) > 0 => RoleMatch(r.message.role, opts.FilterByRole)) }

\* SortedOrders with the comparison turned round
SortedOrdersAscending(results) ==
    { f \in [1..Cardinality(results) -> results] :
        /\ \A i, j \in DOMAIN f : i # j => f[i] # f[j]
        /\ \A i, j \in DOMAIN f : i < j => f[i].score <= f[j].score }

\* step 4: the orders sort.Slice can leave the results in (the map is walked
\* in any order and the sort is not stable, so equal scores come in any order)
RECURSIVE SortedOrders(_)
SortedOrders(results) ==
    IF results = {}
    THEN {<<>>}
    ELSE LET top == {r \in results : \A x \in results : r.score >= x.score}
         IN  UNION { {<<r>> \o rest : rest \in SortedOrders(results \ {r})} : r \in top }

\* a truncation that keeps the end of the list
ApplyLimitKeepingLast(results, limit) ==
    IF Len(results) > limit
    THEN SubSeq(results, Len(results) - limit + 1, Len(results)) ELSE results

\* step 5
ApplyLimit(results, limit) ==
    IF Len(results) > limit THEN SubSeq(results, 1, limit) ELSE results

\* the result lists SearchWithOptions can return; ltErr is TRUE when the
\* long-term query fails, hits is its answer otherwise
SearchResults(query, options, userID, ltErr, hits) ==
    LET opts == ResolveOptions(options)
        shortTermResults == searchShortTerm(query, userID, opts)
        resultMap1 == FirstById(shortTermResults, {})
        resultMap2 == IF ltErr THEN resultMap1
                      ELSE MergeLongTerm(resultMap1, searchLongTerm(hits, query, opts),
                                         query, opts)
    IN  { ApplyLimit(f, opts.Limit) : f \in SortedOrders(Filtered(resultMap2, query, opts)) }

\* resultMap after steps 1 and 2 of SearchWithOptions
ResultMap(query, options, userID, ltErr, hits) ==
    LET opts == ResolveOptions(options)
        resultMap1 == FirstById(searchShortTerm(query, userID, opts), {})
    IN  IF ltErr THEN resultMap1
        ELSE MergeLongTerm(resultMap1, searchLongTerm(hits, query, opts), query, opts)

\* SearchError with the long-term error handed on to the caller
SearchErrorSurfaced(ltErr) == IF ltErr THEN "long-term query failed" ELSE "nil"

\* the error SearchWithOptions returns, "nil" for none: a failed long-term
\* query is skipped, never returned
SearchError(ltErr) == "nil"

SearchWithOptions(query, options, userID, ltErr, hits) ==
    LET uid == getUserID(userID)
        opts == ResolveOptions(options)
    IN  /\ inst = "ok"
        /\ \E results \in SearchResults(query, options, uid, ltErr, hits) :
           lastSearch' = [ called |-> TRUE, user |-> uid, query |-> query,
                           given |-> options, options |-> opts,
                           ltErr |-> ltErr,
                           err |-> SearchError(ltErr), results |-> results ]
        /\ UNCHANGED <<inst, rawConfig, config, shortTerm, longTerm,
                       addLog, everAdded, written, calls, faults, touched>>
        /\ UNCHANGED concVars

\* SearchWithOptions, traced: the answer of the long-term query and the
\* result map built from it are kept as history
SearchWithOptionsTraced(query, options, userID, ltErr, hits) ==
    LET uid == getUserID(userID)
        opts == ResolveOptions(options)
    IN  /\ inst = "ok"
        /\ \E results \in SearchResults(query, options, uid, ltErr, hits) :
           lastSearch' = [ called |-> TRUE, user |-> uid, query |-> query,
                           given |-> options, options |-> opts,
                           ltErr |-> ltErr,
                           err |-> SearchError(ltErr), results |-> results ]
        /\ lastMerge' = [ called |-> TRUE, hits |-> hits,
                          den |-> ScoreDen(query, opts),
                          resultMap |-> ResultMap(query, options, uid, ltErr, hits) ]
        /\ UNCHANGED <<inst, rawConfig, config, shortTerm, longTerm,
                       addLog, everAdded, written, calls, faults, touched>>
        /\ UNCHANGED <<pc, mu, addCalled, lastRet, lastScore, hookRun>>

\* SearchOptionsOf with equal weights written in place of the configured defaults
SearchOptionsOfEqualWeights(limit) ==
    [ Limit |-> limit,
      VectorWeight |-> 5,
      TextWeight |-> 5,
      MinScore |-> config.DefaultMinScore,
      FilterByRole |-> <<>>, IncludeRecent |-> FALSE, RecentCount |-> 0 ]

\* the options Search builds
SearchOptionsOf(limit) ==
    [ Limit |-> limit,
      VectorWeight |-> config.DefaultVectorWeight,
      TextWeight |-> config.DefaultTextWeight,
      MinScore |-> config.DefaultMinScore,
      FilterByRole |-> <<>>, IncludeRecent |-> FALSE, RecentCount |-> 0 ]

Search(query, limit, userID, ltErr, hits) ==
    SearchWithOptions(query, SearchOptionsOf(limit), userID, ltErr, hits)

\* QueryOutcomes with the user_id filter left out of the query
QueryOutcomesAnyUser(options, userID) ==
    {<<TRUE, {}>>}
    \cup { <<FALSE, hits>> :
           hits \in UNION { QueryAnswers(longTerm, u, ResolveOptions(options).Limit * 2) :
                            u \in Users } }

\* the answers of the long-term query SearchWithOptions(query, options, userID)
\* makes: an error, or hits (none are read when it fails)
QueryOutcomes(options, userID) ==
    {<<TRUE, {}>>}
    \cup { <<FALSE, hits>> :
           hits \in QueryAnswers(longTerm, getUserID(userID),
                                 ResolveOptions(options).Limit * 2) }

----------------------------------------------------------------------------
Init ==
    /\ inst = "unbuilt"
    /\ rawConfig = NoConfig
    /\ config = NoConfig
    /\ shortTerm = [u \in Users |-> <<>>]
    /\ longTerm = EmptyDB
    /\ lastSearch = NoSearch
    /\ addLog = [u \in Users |-> <<>>]
    /\ everAdded = [u \in Users |-> {}]
    /\ written = [u \in Users |-> [i \in Ids |-> 0]]
    /\ calls = [adds |-> 0, clears |-> 0]
    /\ faults = {}
    /\ touched = {}
    /\ pc = [g \in Goroutines |-> "idle"]
    /\ mu = [writer |-> NoWriter, readers |-> {}]
    /\ addCalled = {}
    /\ lastRet = NoReturn
    /\ lastScore = NoScore
    /\ hookRun = NoHookRun
    /\ lastMerge = NoMerge

\* the collaborators can fail only in the calls that are made
AddCalls ==
    \E userID \in UserArgs : \E message \in MsgPool(getUserID(userID)) :
       \E getErr \in SUBSET LookedUp(message, userID),
          embErr \in SUBSET LookedUp(message, userID),
          writeOk \in (IF LookedUp(message, userID) = {} THEN {TRUE} ELSE BOOLEAN) :
          Add(message, userID, getErr, embErr, writeOk)

SearchWithOptionsCalls ==
    \E query \in Queries, options \in OptionPool, userID \in UserArgs :
       \E out \in QueryOutcomes(options, userID) :
          SearchWithOptions(query, options, userID, out[1], out[2])

SearchCalls ==
    \E query \in Queries, limit \in LimitPool, userID \in UserArgs :
       \E out \in QueryOutcomes(SearchOptionsOf(limit), userID) :
          Search(query, limit, userID, out[1], out[2])

\* the construction and the writes
Next ==
    \/ \E c \in ConfigPool : NewHybridMemory(c)
    \/ AddCalls
    \/ \E userID \in UserArgs : Clear(userID)

Spec == Init /\ [][Next]_vars

----------------------------------------------------------------------------
(* One tenant's migration passes: a memory with both collaborators and a
   positive threshold, to which one user's messages are added *)

MigrateUserID == <<"u1">>

MigrateConfigs ==
    {c \in ConfigPool : /\ c.VectorDB /\ c.Embedder
                        /\ c.LongTermThreshold > 0 /\ c.DefaultMinScore = 0}

MigrateAddCalls ==
    \E message \in MsgPool(getUserID(MigrateUserID)) :
       \E getErr \in SUBSET LookedUp(message, MigrateUserID),
          embErr \in SUBSET LookedUp(message, MigrateUserID),
          writeOk \in (IF LookedUp(message, MigrateUserID) = {} THEN {TRUE} ELSE BOOLEAN) :
          Add(message, MigrateUserID, getErr, embErr, writeOk)

NextMigrate ==
    \/ \E c \in MigrateConfigs : NewHybridMemory(c)
    \/ MigrateAddCalls

SpecMigrate == Init /\ [][NextMigrate]_vars

\* every operation, in shorter behaviours.  Every operation overwrites
\* lastSearch and none reads it, so what follows a search is what follows the
\* state the search was made in: a behaviour is taken up to its first search.
NextSearch ==
    \/ lastSearch = NoSearch /\ \E c \in ConfigPool : NewHybridMemory(c)
    \/ lastSearch = NoSearch /\ calls.adds < MaxSearchAdds /\ AddCalls
    \/ lastSearch = NoSearch /\ \E userID \in UserArgs : Clear(userID)
    \/ lastSearch = NoSearch /\ SearchWithOptionsCalls
    \/ lastSearch = NoSearch /\ SearchCalls

SpecSearch == Init /\ [][NextSearch]_vars

----------------------------------------------------------------------------
(* The convenience form on its own: a memory is built and filled, and Search
   is called on it once *)

NextSugar ==
    \/ lastSearch = NoSearch /\ \E c \in ConfigPool : NewHybridMemory(c)
    \/ lastSearch = NoSearch /\ calls.adds < MaxSearchAdds /\ AddCalls
    \/ lastSearch = NoSearch /\ SearchCalls

SpecSugar == Init /\ [][NextSugar]_vars

----------------------------------------------------------------------------
(* The merge of the two passes: a memory is built and filled, and one search
   is made whose long-term answer and result map are kept *)

SearchWithOptionsTracedCalls ==
    \E query \in Queries, options \in OptionPool, userID \in UserArgs :
       \E out \in QueryOutcomes(options, userID) :
          SearchWithOptionsTraced(query, options, userID, out[1], out[2])

NextMerge ==
    \/ lastSearch = NoSearch /\ \E c \in ConfigPool : NewHybridMemory(c)
    \/ lastSearch = NoSearch /\ calls.adds < MaxSearchAdds /\ AddCalls
    \/ lastSearch = NoSearch /\ SearchWithOptionsTracedCalls

SpecMerge == Init /\ [][NextMerge]_vars

\* searches of a memory that migrates, Clear included: a message that was
\* migrated and cleared from short-term is found in the long-term store alone
RoundTripConfigs ==
    {c \in ConfigPool : c.VectorDB /\ c.Embedder /\ c.LongTermThreshold = 1}

NextRoundTrip ==
    \/ lastSearch = NoSearch /\ \E c \in RoundTripConfigs : NewHybridMemory(c)
    \/ lastSearch = NoSearch /\ calls.adds < MaxSearchAdds /\ AddCalls
    \/ lastSearch = NoSearch /\ \E userID \in UserArgs : Clear(userID)
    \/ lastSearch = NoSearch /\ SearchWithOptionsTracedCalls

SpecRoundTrip == Init /\ [][NextRoundTrip]_vars

----------------------------------------------------------------------------
(* The selection of the results: a memory is built on a collection that
   exists already ("Collection might already exist"), nothing is added, and
   one search is made.  The store answers with its best documents first,
   under scores of its own choosing. *)

SelectUserID == <<"u1">>

DocIds == <<"d1", "d2", "d3", "d4", "d5", "d6", "d7", "d8">>

StoredDocument(k) ==
    [ id |-> DocIds[k], content |-> TextB, user_id |-> getUserID(SelectUserID),
      role |-> IF k % 2 = 1 THEN RoleUser ELSE RoleAssistant ]

ExistingCollection ==
    [ i \in {DocIds[k] : k \in 1..MaxHits} |->
         StoredDocument(CHOOSE k \in 1..MaxHits : DocIds[k] = i) ]

\* the similarity scores of the store, in tenths
HitScores == {1, 5, 9}

\* what Query may answer under the given limit: the first n documents, n up
\* to the limit, under scores that do not rise
StoreAnswers(limit) ==
    UNION { { {[id |-> DocIds[k], content |-> StoredDocument(k).content,
                role |-> StoredDocument(k).role, score |-> sc[k]] : k \in 1..n} :
              sc \in {f \in [1..n -> HitScores] :
                        \A j \in 1..(n - 1) : f[j] >= f[j + 1]} } :
            n \in {m \in 0..MaxHits : m <= limit} }

SelectConfigs ==
    {c \in ConfigPool : c.VectorDB /\ c.Embedder /\ c.LongTermThreshold \in {0, 1}}

InitSelect ==
    /\ inst = "ok"
    /\ rawConfig \in SelectConfigs
    /\ config = SetDefaults(rawConfig)
    /\ shortTerm = NewInMemory(config.MaxShortTermMessages)
    /\ longTerm = ExistingCollection
    /\ lastSearch = NoSearch
    /\ addLog = [u \in Users |-> <<>>]
    /\ everAdded = [u \in Users |-> {}]
    /\ written = [u \in Users |-> [i \in Ids |-> 0]]
    /\ calls = [adds |-> 0, clears |-> 0]
    /\ faults = {}
    /\ touched = {}
    /\ pc = [g \in Goroutines |-> "idle"]
    /\ mu = [writer |-> NoWriter, readers |-> {}]
    /\ addCalled = {}
    /\ lastRet = NoReturn
    /\ lastScore = NoScore
    /\ hookRun = NoHookRun
    /\ lastMerge = NoMerge

SelectSearch ==
    \E query \in Queries, options \in OptionPool :
       \E hits \in StoreAnswers(ResolveOptions(options).Limit * 2) :
          SearchWithOptionsTraced(query, options, SelectUserID, FALSE, hits)

NextSelect == lastSearch = NoSearch /\ SelectSearch

SpecSelect == InitSelect /\ [][NextSelect]_vars

----------------------------------------------------------------------------
(* Two tenants on one collection: the memory is built on the collection an
   earlier run left, in which the default user's message m1 was migrated. *)

LeftByEarlierRun ==
    VectorDBAdd(EmptyDB,
                <<NewDocument(CHOOSE m \in MsgPool(DefaultUserID) : m.id = "m1",
                              DefaultUserID)>>)

InitTenants ==
    /\ inst = "ok"
    /\ rawConfig \in RoundTripConfigs
    /\ config = SetDefaults(rawConfig)
    /\ shortTerm = NewInMemory(config.MaxShortTermMessages)
    /\ longTerm = LeftByEarlierRun
    /\ lastSearch = NoSearch
    /\ addLog = [u \in Users |-> <<>>]
    /\ everAdded = [u \in Users |-> {}]
    /\ written = [u \in Users |-> [i \in Ids |-> 0]]
    /\ calls = [adds |-> 0, clears |-> 0]
    /\ faults = {}
    /\ touched = {}
    /\ pc = [g \in Goroutines |-> "idle"]
    /\ mu = [writer |-> NoWriter, readers |-> {}]
    /\ addCalled = {}
    /\ lastRet = NoReturn
    /\ lastScore = NoScore
    /\ hookRun = NoHookRun
    /\ lastMerge = NoMerge

NextTenants == AddCalls

SpecTenants == InitTenants /\ [][NextTenants]_vars

----------------------------------------------------------------------------
(* The text score on its own: calculateTextSimilarity as searchShortTerm   *)
(* calls it, for queries and texts of every shape.                         *)

Chars == {"a", "b", "A", " "}

\* the strings of at most MaxTextLen characters
Texts == UNION {[1..n -> Chars] : n \in 0..MaxTextLen}

\* textScore of searchShortTerm: both strings are lower-cased first
ScoreMessage(query, content) ==
    /\ lastScore = NoScore
    /\ lastScore' = [ called |-> TRUE, query |-> query, text |-> content,
                      score |-> calculateTextSimilarity(ToLower(query), ToLower(content)) ]
    /\ UNCHANGED <<inst, rawConfig, config, shortTerm, longTerm, lastSearch,
                   addLog, everAdded, written, calls, faults, touched,
                   pc, mu, addCalled, lastRet, hookRun, lastMerge>>

\* one score is computed in a behaviour
NextScore ==
    /\ lastScore = NoScore
    /\ \E query \in Texts, content \in Texts : ScoreMessage(query, content)

SpecScore == Init /\ [][NextScore]_vars

----------------------------------------------------------------------------
(* The scenario of TestHybridMemorySearch: tiering is off, one user adds a
   user, an assistant and a system message, and Search is called with limit 3.
   The texts are written in the alphabet of Chars, "a" for "quick" and "b" for
   "fox": "Ab a b" for the message with both words, "Aa a bb" for the one
   with "quick" and "foxes", "Ba ab" for the system message, which has neither. *)

ScenarioUserID == <<"u1">>

ScenarioMessages ==
    << [id |-> "m1", role |-> RoleUser,
        content |-> <<"A", "b", " ", "a", " ", "b">>],
       [id |-> "m2", role |-> RoleAssistant,
        content |-> <<"A", "a", " ", "a", " ", "b", "b">>],
       [id |-> "m3", role |-> RoleSystem,
        content |-> <<"B", "a", " ", "a", "b">>] >>

\* "quick fox"
QuickFox == <<"a", " ", "b">>

ScenarioLimit == 3

\* the test leaves LongTermThreshold unset
ScenarioConfigs ==
    {c \in ConfigPool : /\ c.VectorDB /\ c.Embedder
                        /\ c.LongTermThreshold <= 0 /\ c.DefaultMinScore = 0}

\* the next message of the scenario is added
ScenarioAdd ==
    LET n == Len(InMemoryGetMessages(shortTerm, getUserID(ScenarioUserID)))
    IN  /\ n < Len(ScenarioMessages)
        /\ Add(ScenarioMessages[n + 1], ScenarioUserID, {}, {}, TRUE)

ScenarioSearch ==
    \E query \in Texts :
       \E out \in QueryOutcomes(SearchOptionsOf(ScenarioLimit), ScenarioUserID) :
          Search(query, ScenarioLimit, ScenarioUserID, out[1], out[2])

NextScenario ==
    \/ lastSearch = NoSearch /\ \E c \in ScenarioConfigs : NewHybridMemory(c)
    \/ lastSearch = NoSearch /\ ScenarioAdd
    \/ lastSearch = NoSearch /\ ScenarioSearch

SpecScenario == Init /\ [][NextScenario]_vars

----------------------------------------------------------------------------
(* hooks: ExecuteToolPreHooks and ExecuteToolPostHooks.  A ToolHook is any
   value (interface{}): a ToolHooker, a ToolHookFunc, a plain function of the
   hook signature, or a value of another type.  pre and post are what the hook
   returns when it is called before and after the tool: "nil" or an error. *)

ToolHookPhasePre == "pre"
ToolHookPhasePost == "post"

\* the nil error ExecuteToolPreHooks and ExecuteToolPostHooks return
NilError == [nil |-> TRUE]

HookPool ==
    [kind : {"ToolHooker"}, pre : {"nil", "blocked"}, post : {"nil", "failed"}]
    \cup {[kind |-> k, pre |-> e, post |-> e] :
             k \in {"ToolHookFunc", "func"}, e \in {"nil", "blocked"}}
    \cup {[kind |-> "other", pre |-> "nil", post |-> "nil"]}

\* the lists of hooks callers pass
HookLists == UNION {[1..n -> HookPool] : n \in 0..MaxHooks}

\* one of the three type checks of ExecuteToolPreHook and ExecuteToolPostHook
\* succeeds, and the hook is called
Callable(hook) == hook.kind \in {"ToolHooker", "ToolHookFunc", "func"}

\* a ToolHooker is asked OnToolPre, a function is called; any other value
\* falls through to "return nil"
ExecuteToolPreHook(hook) == IF Callable(hook) THEN hook.pre ELSE "nil"

\* a ToolHooker is asked OnToolPost, a function is called; any other value
\* falls through to "return nil"
ExecuteToolPostHook(hook) == IF Callable(hook) THEN hook.post ELSE "nil"

ExecuteToolHook(phase, hook) ==
    IF phase = ToolHookPhasePre THEN ExecuteToolPreHook(hook) ELSE ExecuteToolPostHook(hook)

\* ToolHooksError with the position counted from 1
ToolHooksErrorOneBased(phase, i, err) ==
    [ text |-> IF phase = ToolHookPhasePre THEN "tool pre-hook %d blocked execution: %w"
                                           ELSE "tool post-hook %d error: %w",
      index |-> i + 1, wraps |-> err ]

\* fmt.Errorf("tool pre-hook %d blocked execution: %w", i, err) and
\* fmt.Errorf("tool post-hook %d error: %w", i, err); i counts from 0
ToolHooksError(phase, i, err) ==
    [ text |-> IF phase = ToolHookPhasePre THEN "tool pre-hook %d blocked execution: %w"
                                           ELSE "tool post-hook %d error: %w",
      index |-> i, wraps |-> err ]

\* the call is made: the loop stands before hooks[0]
ExecuteToolHooks(phase, hooks) ==
    /\ hookRun = NoHookRun
    /\ hookRun' = [ state |-> "running", phase |-> phase, hooks |-> hooks, i |-> 0,
                    invoked |-> [k \in 1..Len(hooks) |-> 0], order |-> <<>>,
                    ret |-> NilError ]
    /\ UNCHANGED <<inst, rawConfig, config, shortTerm, longTerm, lastSearch,
                   addLog, everAdded, written, calls, faults, touched,
                   pc, mu, addCalled, lastRet, lastScore, lastMerge>>

ExecuteToolPreHooks(hooks) == ExecuteToolHooks(ToolHookPhasePre, hooks)

ExecuteToolPostHooks(hooks) == ExecuteToolHooks(ToolHookPhasePost, hooks)

\* one turn of "for i, hook := range hooks": the hook is executed, and its
\* error, if any, is wrapped and returned
HookIteration ==
    /\ hookRun.state = "running"
    /\ hookRun.i < Len(hookRun.hooks)
    /\ LET i == hookRun.i
           hook == hookRun.hooks[i + 1]
           err == ExecuteToolHook(hookRun.phase, hook)
           ran == IF Callable(hook)
                  THEN [hookRun EXCEPT !.invoked[i + 1] = @ + 1, !.order = Append(@, i)]
                  ELSE hookRun
       IN  hookRun' = IF err # "nil"
                      THEN [ran EXCEPT !.state = "returned",
                                       !.ret = ToolHooksError(hookRun.phase, i, err)]
                      ELSE [ran EXCEPT !.i = i + 1]
    /\ UNCHANGED <<inst, rawConfig, config, shortTerm, longTerm, lastSearch,
                   addLog, everAdded, written, calls, faults, touched,
                   pc, mu, addCalled, lastRet, lastScore, lastMerge>>

\* the loop has ended: "return nil"
HooksReturnNil ==
    /\ hookRun.state = "running"
    /\ hookRun.i = Len(hookRun.hooks)
    /\ hookRun' = [hookRun EXCEPT !.state = "returned", !.ret = NilError]
    /\ UNCHANGED <<inst, rawConfig, config, shortTerm, longTerm, lastSearch,
                   addLog, everAdded, written, calls, faults, touched,
                   pc, mu, addCalled, lastRet, lastScore, lastMerge>>

NextHooks ==
    \/ hookRun = NoHookRun /\ \E hooks \in HookLists : ExecuteToolPreHooks(hooks)
    \/ hookRun = NoHookRun /\ \E hooks \in HookLists : ExecuteToolPostHooks(hooks)
    \/ HookIteration
    \/ HooksReturnNil

SpecHooks == Init /\ [][NextHooks]_vars

----------------------------------------------------------------------------
(* Concurrent callers: goroutines that call one instance at the same time.  *)
(* A call is a sequence of steps; a step is one lock operation or one call  *)
(* on the short-term store or on the collaborators.                         *)

\* the userID argument the goroutines pass
ConcUserID == <<"u1">>

\* the message a goroutine adds; each goroutine calls Add at most once
GoroutineMessage(g) ==
    LET id == IF g = "g1" THEN "m1" ELSE IF g = "g2" THEN "m3" ELSE "m2"
    IN  CHOOSE m \in MsgPool(getUserID(ConcUserID)) : m.id = id

\* the configs of the instance the goroutines share
ConcConfigs ==
    {c \in ConfigPool : /\ c.VectorDB /\ c.Embedder
                        /\ c.LongTermThreshold \in {0, 1}
                        /\ c.DefaultMinScore = 0}

\* m.mu.Lock() returns when no goroutine holds the lock in either mode
CanLock == mu.writer = NoWriter /\ mu.readers = {}

\* m.mu.RLock() returns when no goroutine holds Lock
CanRLock == mu.writer = NoWriter

\* an Add has appended its message and its migration pass has not ended
MidAdd == \E h \in Goroutines : pc[h] = "add_migrate"

\* the variables of the calls made one after the other that no step changes
seqVars == <<inst, rawConfig, config, lastSearch, addLog, everAdded, written,
             faults, touched, lastScore, hookRun, lastMerge>>

InitConc ==
    /\ inst = "ok"
    /\ rawConfig \in ConcConfigs
    /\ config = SetDefaults(rawConfig)
    /\ shortTerm = NewInMemory(config.MaxShortTermMessages)
    /\ longTerm = EmptyDB
    /\ lastSearch = NoSearch
    /\ addLog = [u \in Users |-> <<>>]
    /\ everAdded = [u \in Users |-> {}]
    /\ written = [u \in Users |-> [i \in Ids |-> 0]]
    /\ calls = [adds |-> 0, clears |-> 0]
    /\ faults = {}
    /\ touched = {}
    /\ pc = [g \in Goroutines |-> "idle"]
    /\ mu = [writer |-> NoWriter, readers |-> {}]
    /\ addCalled = {}
    /\ lastRet = NoReturn
    /\ lastScore = NoScore
    /\ hookRun = NoHookRun
    /\ lastMerge = NoMerge

\* Add is called
AddCall(g) ==
    /\ pc[g] = "idle" /\ g \notin addCalled
    /\ addCalled' = addCalled \cup {g}
    /\ pc' = [pc EXCEPT ![g] = "add_lock"]
    /\ lastRet' = NoReturn
    /\ UNCHANGED <<shortTerm, longTerm, calls, mu>>
    /\ UNCHANGED seqVars

\* m.mu.Lock()
AddLock(g) ==
    /\ pc[g] = "add_lock" /\ CanLock
    /\ mu' = [mu EXCEPT !.writer = g]
    /\ pc' = [pc EXCEPT ![g] = "add_append"]
    /\ lastRet' = NoReturn
    /\ UNCHANGED <<shortTerm, longTerm, calls, addCalled>>
    /\ UNCHANGED seqVars

\* m.shortTerm.Add(message, uid), and the test of the threshold
AddAppend(g) ==
    /\ pc[g] = "add_append"
    /\ shortTerm' = AddToShortTerm(GoroutineMessage(g), getUserID(ConcUserID))
    /\ pc' = [pc EXCEPT ![g] = IF TieringEnabled THEN "add_migrate" ELSE "add_unlock"]
    /\ lastRet' = NoReturn
    /\ UNCHANGED <<longTerm, calls, mu, addCalled>>
    /\ UNCHANGED seqVars

\* m.moveToLongTerm(uid); writeOk is FALSE when the batch write fails
AddMigrate(g, getErr, embErr, writeOk) ==
    LET batch == moveToLongTerm(shortTerm, longTerm, getUserID(ConcUserID), getErr, embErr)
    IN  /\ pc[g] = "add_migrate"
        /\ longTerm' = IF Len(batch) > 0 /\ writeOk
                       THEN VectorDBAdd(longTerm, batch)
                       ELSE longTerm
        /\ pc' = [pc EXCEPT ![g] = "add_unlock"]
        /\ lastRet' = NoReturn
        /\ UNCHANGED <<shortTerm, calls, mu, addCalled>>
        /\ UNCHANGED seqVars

\* an Add that returns without the deferred m.mu.Unlock()
AddUnlockKeepingLock(g) ==
    /\ pc[g] = "add_unlock"
    /\ pc' = [pc EXCEPT ![g] = "idle"]
    /\ lastRet' = NoReturn
    /\ UNCHANGED <<shortTerm, longTerm, calls, mu, addCalled>>
    /\ UNCHANGED seqVars

\* the deferred m.mu.Unlock(), and the return
AddUnlock(g) ==
    /\ pc[g] = "add_unlock"
    /\ mu' = [mu EXCEPT !.writer = NoWriter]
    /\ pc' = [pc EXCEPT ![g] = "idle"]
    /\ lastRet' = NoReturn
    /\ UNCHANGED <<shortTerm, longTerm, calls, addCalled>>
    /\ UNCHANGED seqVars

\* Clear is called
ClearCall(g) ==
    /\ pc[g] = "idle" /\ calls.clears < MaxClears
    /\ calls' = [calls EXCEPT !.clears = @ + 1]
    /\ pc' = [pc EXCEPT ![g] = "clear_lock"]
    /\ lastRet' = NoReturn
    /\ UNCHANGED <<shortTerm, longTerm, mu, addCalled>>
    /\ UNCHANGED seqVars

\* m.mu.Lock()
ClearLock(g) ==
    /\ pc[g] = "clear_lock" /\ CanLock
    /\ mu' = [mu EXCEPT !.writer = g]
    /\ pc' = [pc EXCEPT ![g] = "clear_run"]
    /\ lastRet' = NoReturn
    /\ UNCHANGED <<shortTerm, longTerm, calls, addCalled>>
    /\ UNCHANGED seqVars

\* m.shortTerm.Clear(uid)
ClearRun(g) ==
    /\ pc[g] = "clear_run"
    /\ shortTerm' = InMemoryClear(shortTerm, getUserID(ConcUserID))
    /\ pc' = [pc EXCEPT ![g] = "clear_unlock"]
    /\ lastRet' = NoReturn
    /\ UNCHANGED <<longTerm, calls, mu, addCalled>>
    /\ UNCHANGED seqVars

\* the deferred m.mu.Unlock(), and the return
ClearUnlock(g) ==
    /\ pc[g] = "clear_unlock"
    /\ mu' = [mu EXCEPT !.writer = NoWriter]
    /\ pc' = [pc EXCEPT ![g] = "idle"]
    /\ lastRet' = NoReturn
    /\ UNCHANGED <<shortTerm, longTerm, calls, addCalled>>
    /\ UNCHANGED seqVars

\* GetMessages: one call on the short-term store, m.mu is not taken
GetMessagesCall(g) ==
    /\ pc[g] = "idle"
    /\ lastRet' = [ op |-> "GetMessages", value |-> GetMessages(ConcUserID),
                    midAdd |-> MidAdd, overlap |-> mu.readers # {} ]
    /\ UNCHANGED <<shortTerm, longTerm, calls, pc, mu, addCalled>>
    /\ UNCHANGED seqVars

\* Size: one call on the short-term store, m.mu is not taken
SizeCall(g) ==
    /\ pc[g] = "idle"
    /\ lastRet' = [ op |-> "Size", value |-> Size(ConcUserID),
                    midAdd |-> MidAdd, overlap |-> mu.readers # {} ]
    /\ UNCHANGED <<shortTerm, longTerm, calls, pc, mu, addCalled>>
    /\ UNCHANGED seqVars

\* Search is called
SearchCall(g) ==
    /\ pc[g] = "idle"
    /\ pc' = [pc EXCEPT ![g] = "search_rlock"]
    /\ lastRet' = NoReturn
    /\ UNCHANGED <<shortTerm, longTerm, calls, mu, addCalled>>
    /\ UNCHANGED seqVars

\* m.mu.RLock()
SearchRLock(g) ==
    /\ pc[g] = "search_rlock" /\ CanRLock
    /\ mu' = [mu EXCEPT !.readers = @ \cup {g}]
    /\ pc' = [pc EXCEPT ![g] = "search_run"]
    /\ lastRet' = NoReturn
    /\ UNCHANGED <<shortTerm, longTerm, calls, addCalled>>
    /\ UNCHANGED seqVars

\* the body of SearchWithOptions, from the defaults to the truncation; the
\* value kept is the ids of the results, in order
SearchRun(g, query, limit, ltErr, hits) ==
    /\ pc[g] = "search_run"
    /\ \E results \in SearchResults(query, SearchOptionsOf(limit),
                                    getUserID(ConcUserID), ltErr, hits) :
          lastRet' = [ op |-> "Search",
                       value |-> [i \in 1..Len(results) |-> results[i].message.id],
                       midAdd |-> MidAdd, overlap |-> mu.readers \ {g} # {} ]
    /\ pc' = [pc EXCEPT ![g] = "search_runlock"]
    /\ UNCHANGED <<shortTerm, longTerm, calls, mu, addCalled>>
    /\ UNCHANGED seqVars

\* the deferred m.mu.RUnlock(), and the return
SearchRUnlock(g) ==
    /\ pc[g] = "search_runlock"
    /\ mu' = [mu EXCEPT !.readers = @ \ {g}]
    /\ pc' = [pc EXCEPT ![g] = "idle"]
    /\ lastRet' = NoReturn
    /\ UNCHANGED <<shortTerm, longTerm, calls, addCalled>>
    /\ UNCHANGED seqVars

\* the ids a migration pass of the goroutines' user looks up
ConcLookedUp ==
    LET allMessages == InMemoryGetMessages(shortTerm, getUserID(ConcUserID))
    IN  IF Len(allMessages) > config.LongTermThreshold
        THEN {m.id : m \in Range(toMove(allMessages, config.LongTermThreshold))}
        ELSE {}

NextConc ==
    \/ \E g \in Goroutines : AddCall(g)
    \/ \E g \in Goroutines : AddLock(g)
    \/ \E g \in Goroutines : AddAppend(g)
    \/ \E g \in Goroutines :
          \E getErr \in SUBSET ConcLookedUp, embErr \in SUBSET ConcLookedUp,
             writeOk \in BOOLEAN :
             AddMigrate(g, getErr, embErr, writeOk)
    \/ \E g \in Goroutines : AddUnlock(g)
    \/ \E g \in Goroutines : ClearCall(g)
    \/ \E g \in Goroutines : ClearLock(g)
    \/ \E g \in Goroutines : ClearRun(g)
    \/ \E g \in Goroutines : ClearUnlock(g)
    \/ \E g \in Goroutines : GetMessagesCall(g)
    \/ \E g \in Goroutines : SizeCall(g)
    \/ \E g \in Goroutines : SearchCall(g)
    \/ \E g \in Goroutines : SearchRLock(g)
    \/ \E g \in Goroutines : \E query \in Queries, limit \in LimitPool :
          \E out \in QueryOutcomes(SearchOptionsOf(limit), ConcUserID) :
             SearchRun(g, query, limit, out[1], out[2])
    \/ \E g \in Goroutines : SearchRUnlock(g)

SpecConc == InitConc /\ [][NextConc]_vars

----------------------------------------------------------------------------
(* Properties *)

IsOrdinary(msg) == msg.role # RoleSystem

\* the non-system messages added for a user since the last Clear, oldest first
OrdinaryAdded(u) == SelectSeq(addLog[u], IsOrdinary)

ResultsOf(search) == {search.results[i] : i \in 1..Len(search.results)}

\* the query words (lower-cased) that occur in a text
SharesWord(query, text) ==
    \E w \in Range(Fields(ToLower(query))) : w \in Range(Fields(ToLower(text)))

\* C1: a search for a user never returns a message added only under another
\* user: every returned message has the id and content of a message that was
\* added under the user searched for.
C1_TenantIsolation ==
    lastSearch.called =>
        \A r \in ResultsOf(lastSearch) :
            \E m \in everAdded[lastSearch.user] :
                m.id = r.message.id /\ m.content = r.message.content

\* a search returned a message of its user while the other user holds a
\* message that shares a word with the query
C1_Witness ==
    /\ lastSearch.called
    /\ lastSearch.results # <<>>
    /\ \E u \in Users \ {lastSearch.user} :
          \E m \in Range(shortTerm[u]) :
             /\ SharesWord(lastSearch.query, m.content)
             /\ m \notin everAdded[lastSearch.user]

\* C2: GetMessages(user) returns exactly the messages added for that user, in
\* the order of the Add calls, whatever was added for other users.
C2_GetMessagesInOrder ==
    inst = "ok" => \A a \in UserArgs : GetMessages(a) = addLog[getUserID(a)]

\* both users hold messages, one of them two different ones
C2_Witness ==
    /\ \A u \in Users : Len(addLog[u]) >= 1
    /\ \E u \in Users : Len(addLog[u]) >= 2 /\ addLog[u][1] # addLog[u][2]
    /\ \A a \in UserArgs : GetMessages(a) = addLog[getUserID(a)]

\* the oldest Len - T non-system messages added for u have an entry under
\* their id in the long-term store
OldestStored(u) ==
    \A i \in 1..(Len(OrdinaryAdded(u)) - config.LongTermThreshold) :
        OrdinaryAdded(u)[i].id \in DOMAIN longTerm

C4_NoSystemMigrated ==
    \A i \in DOMAIN longTerm : longTerm[i].role # RoleSystem

\* a user holds more system messages than the threshold, the oldest message
\* is one of them, and a migration for that user has written an entry
C4_Witness ==
    /\ inst = "ok" /\ config.LongTermThreshold > 0
    /\ \E u \in Users :
          /\ Cardinality({i \in 1..Len(shortTerm[u]) : shortTerm[u][i].role = RoleSystem})
                > config.LongTermThreshold
          /\ shortTerm[u][1].role = RoleSystem
          /\ \E i \in DOMAIN longTerm : longTerm[i].user_id = u

\* no message was added twice
NoRepeatedAdd ==
    /\ calls.clears = 0
    /\ \A u \in Users : \A i, j \in 1..Len(addLog[u]) :
          i # j => addLog[u][i].id # addLog[u][j].id

\* C5 as claimed: whatever the lookups, embeddings and batch writes answer,
\* each message (none being added twice) is successfully written to the
\* long-term store at most once.
C5_WrittenAtMostOnce ==
    NoRepeatedAdd => \A u \in Users : \A i \in Ids : written[u][i] <= 1

C7_SortedAboveMinScore ==
    lastSearch.called =>
        LET res == lastSearch.results
            den == 10 * QueryDen(lastSearch.query)
                      * (lastSearch.options.VectorWeight + lastSearch.options.TextWeight)
        IN  /\ \A i \in 1..(Len(res) - 1) : res[i].score >= res[i + 1].score
            /\ \A i \in 1..Len(res) :
                  10 * res[i].score >= lastSearch.options.MinScore * den

\* a search with a positive MinScore returned two results of different score
C7_Witness ==
    /\ lastSearch.called
    /\ lastSearch.options.MinScore > 0
    /\ Len(lastSearch.results) >= 2
    /\ lastSearch.results[1].score > lastSearch.results[2].score

\* C8: with a non-empty FilterByRole every result has a role of the filter.
C8_RoleFilter ==
    (lastSearch.called /\ Len(lastSearch.options.FilterByRole) > 0) =>
        \A r \in ResultsOf(lastSearch) :
            r.message.role \in Range(lastSearch.options.FilterByRole)

\* a role-filtered search returned a result found by the long-term pass
C8_Witness ==
    /\ lastSearch.called
    /\ Len(lastSearch.options.FilterByRole) > 0
    /\ \E r \in ResultsOf(lastSearch) : r.vectorScore > 0

\* C9: NewHybridMemory fails exactly when the config lacks the vector store or
\* the embedder; otherwise the instance carries the config with the unset
\* numbers replaced by the defaults; nothing is added without an instance.
C9_Constructor ==
    inst # "unbuilt" =>
        /\ inst = "failed" <=> (~rawConfig.VectorDB \/ ~rawConfig.Embedder)
        /\ inst = "ok" =>
              /\ config.MaxShortTermMessages =
                    (IF rawConfig.MaxShortTermMessages <= 0
                     THEN DefaultMaxShortTermMessages ELSE rawConfig.MaxShortTermMessages)
              /\ config.DefaultVectorWeight =
                    (IF rawConfig.DefaultVectorWeight <= 0
                     THEN DefaultVectorWeightTenths ELSE rawConfig.DefaultVectorWeight)
              /\ config.DefaultTextWeight =
                    (IF rawConfig.DefaultTextWeight <= 0
                     THEN DefaultTextWeightTenths ELSE rawConfig.DefaultTextWeight)
              /\ config.DefaultMinScore =
                    (IF rawConfig.DefaultMinScore <= 0
                     THEN DefaultMinScoreTenths ELSE rawConfig.DefaultMinScore)
              /\ config.LongTermThreshold = rawConfig.LongTermThreshold
        /\ inst = "failed" =>
              /\ calls.adds = 0
              /\ \A u \in Users : shortTerm[u] = <<>> /\ everAdded[u] = {}

\* the constructor refused a config that has the vector store and no embedder
C9_Witness ==
    inst = "failed" /\ rawConfig.VectorDB /\ ~rawConfig.Embedder

\* the result lists of the short-term pass alone: its results with a score of
\* at least MinScore and a role of the filter, best first, cut at the limit
ShortTermOnly(search) ==
    LET opts == search.options
        found == { r \in Range(searchShortTerm(search.query, search.user, opts)) :
                     /\ 10 * r.score >= opts.MinScore * ScoreDen(search.query, opts)
                     /\ (opts.FilterByRole # <<>>
                            => r.message.role \in Range(opts.FilterByRole)) }
        \* one result per id: the first in the buffer
        first == { r \in found :
                     \A i, j \in 1..Len(shortTerm[search.user]) :
                        (shortTerm[search.user][j] = r.message
                           /\ shortTerm[search.user][i].id = r.message.id /\ i < j)
                        => shortTerm[search.user][i] = r.message }
        n == IF Cardinality(first) > opts.Limit THEN opts.Limit ELSE Cardinality(first)
    IN  { f \in [1..n -> first] :
            /\ \A i, j \in 1..n : i # j => f[i] # f[j]
            /\ \A i, j \in 1..n : i < j => f[i].score >= f[j].score
            /\ \A r \in first : (\A i \in 1..n : f[i] # r) => r.score <= f[n].score }

\* C10: when the long-term query fails the search returns no error and the
\* short-term results alone, filtered, sorted and cut at the limit.
C10_LongTermErrorSwallowed ==
    (lastSearch.called /\ lastSearch.ltErr) =>
        /\ lastSearch.err = "nil"
        /\ lastSearch.results \in ShortTermOnly(lastSearch)

\* the long-term query failed while the store held an entry of the searching
\* user, and the search still returned a short-term result
C10_Witness ==
    /\ lastSearch.called /\ lastSearch.ltErr
    /\ lastSearch.results # <<>>
    /\ \E i \in DOMAIN longTerm : longTerm[i].user_id = lastSearch.user

\* the migration candidates of the pass Add(message, uid) runs: the non-system
\* messages among the oldest count - T of the bucket after the append
CandidatesOf(message, uid) ==
    LET all == Append(shortTerm[uid], message)
        T == config.LongTermThreshold
    IN  IF T > 0 /\ Len(all) > T
        THEN SelectSeq(SubSeq(all, 1, Len(all) - T), IsOrdinary)
        ELSE <<>>

\* what one Add step leaves behind when some embeddings of its pass fail; with
\* needWrite the step is looked at only when its batch write succeeded.  The
\* step is an Add when it counts one, and it is the Add of the message that
\* joined the user's log.
EmbedFailureStep(needWrite) ==
    calls'.adds = calls.adds + 1 =>
        \A userID \in UserArgs :
           addLog'[getUserID(userID)] # addLog[getUserID(userID)] =>
              LET uid == getUserID(userID)
                  message == addLog'[uid][Len(addLog'[uid])]
                  cands == CandidatesOf(message, uid)
              IN  \A getErr \in SUBSET LookedUp(message, userID),
                     embErr \in SUBSET LookedUp(message, userID),
                     writeOk \in (IF needWrite THEN {TRUE} ELSE BOOLEAN) :
                     Add(message, userID, getErr, embErr, writeOk) =>
                         /\ shortTerm'[uid] = Append(shortTerm[uid], message)
                         /\ \A i \in 1..Len(cands) :
                               /\ (cands[i].id \notin embErr
                                      /\ cands[i].id \notin DOMAIN longTerm)
                                     => /\ written'[uid][cands[i].id]
                                              > written[uid][cands[i].id]
                                        /\ cands[i].id \in DOMAIN longTerm'
                                        /\ longTerm'[cands[i].id].content = cands[i].content
                                        /\ longTerm'[cands[i].id].user_id = uid
                               /\ cands[i].id \in embErr
                                     => written'[uid][cands[i].id]
                                           = written[uid][cands[i].id]

\* C11 as claimed: in every Add, whichever embeddings of its migration pass
\* fail, every candidate that is not stored yet and whose embedding succeeds
\* is written to the long-term store, a candidate whose embedding fails is
\* not written by that pass, and the message is appended to short-term.
C11_EmbedFailureNonFatal == [][EmbedFailureStep(FALSE)]_vars

\* C11 amended: the same for every Add whose batch write succeeds.
C11_EmbedFailureNonFatalWhenWritten == [][EmbedFailureStep(TRUE)]_vars

\* the Add that made the two oldest messages of a bucket candidates together
\* wrote the second and left the first, whose embedding failed, unstored
C11_Witness ==
    /\ inst = "ok" /\ config.LongTermThreshold > 0 /\ calls.clears = 0
    /\ \E u \in Users :
          /\ Len(shortTerm[u]) = config.LongTermThreshold + 2
          /\ IsOrdinary(shortTerm[u][1]) /\ IsOrdinary(shortTerm[u][2])
          /\ shortTerm[u][1].id # shortTerm[u][2].id
          /\ shortTerm[u][1].id \notin DOMAIN longTerm
          /\ written[u][shortTerm[u][2].id] = 1
          /\ "embed" \in faults

\* C12: a Clear step for a user leaves that user's Size at 0 and GetMessages
\* empty, and leaves the message sequence, hence the size, of every other
\* user as it was.
C12_ClearEmptiesOneTenant ==
    [][ \A userID \in UserArgs :
          Clear(userID) =>
              /\ InMemorySize(shortTerm', getUserID(userID)) = 0
              /\ InMemoryGetMessages(shortTerm', getUserID(userID)) = <<>>
              /\ \A u \in Users \ {getUserID(userID)} :
                    /\ InMemoryGetMessages(shortTerm', u) = InMemoryGetMessages(shortTerm, u)
                    /\ InMemorySize(shortTerm', u) = InMemorySize(shortTerm, u) ]_vars

\* a user who had messages was cleared and holds none, while the other user
\* still holds messages
C12_Witness ==
    /\ inst = "ok" /\ calls.clears > 0
    /\ \E a, b \in UserArgs :
          /\ getUserID(a) # getUserID(b)
          /\ everAdded[getUserID(a)] # {}
          /\ Size(a) = 0 /\ GetMessages(a) = <<>>
          /\ Size(b) > 0

\* C13: a Clear step leaves the long-term store as it was; Size counts the
\* messages appended to short-term since the last Clear and nothing of the
\* long-term store; and a search for a user whose short-term bucket is empty
\* returns entries of that user from the long-term pass only.
C13_ClearKeepsLongTerm ==
    /\ [][ \A userID \in UserArgs : Clear(userID) => longTerm' = longTerm ]_vars
    /\ [](inst = "ok" => \A a \in UserArgs : Size(a) = Len(addLog[getUserID(a)]))
    /\ []((lastSearch.called /\ shortTerm[lastSearch.user] = <<>>) =>
            \A r \in ResultsOf(lastSearch) :
                /\ r.source = "long_term"
                /\ r.message.id \in DOMAIN longTerm
                /\ longTerm[r.message.id].user_id = lastSearch.user)

\* after a Clear the user's Size is 0, and a search for that user returned a
\* message of theirs that was migrated before the Clear
C13_Witness ==
    /\ lastSearch.called /\ calls.clears > 0
    /\ shortTerm[lastSearch.user] = <<>>
    /\ \E a \in UserArgs : getUserID(a) = lastSearch.user /\ Size(a) = 0
    /\ \E r \in ResultsOf(lastSearch) :
          /\ r.source = "long_term"
          /\ written[lastSearch.user][r.message.id] > 0
          /\ \E m \in everAdded[lastSearch.user] :
                m.id = r.message.id /\ m.content = r.message.content

\* the messages the user has written to the long-term store and not cleared
\* from short-term since they were added
MigratedOf(u) ==
    {m \in Range(addLog[u]) : written[u][m.id] > 0}

C15_TieringDisabled ==
    (inst = "ok" /\ config.LongTermThreshold <= 0) =>
        /\ touched = {}
        /\ DOMAIN longTerm = {}
        /\ \A u \in Users : \A i \in Ids : written[u][i] = 0
        /\ \A u \in Users : shortTerm[u] = addLog[u]

\* with the threshold at 0 or below a user holds three messages, the oldest
\* of them not a system message
C15_Witness ==
    /\ inst = "ok" /\ config.LongTermThreshold <= 0
    /\ touched = {} /\ DOMAIN longTerm = {}
    /\ \E u \in Users :
          /\ Len(shortTerm[u]) >= 3
          /\ IsOrdinary(shortTerm[u][1])

\* the lock is held in one mode at a time, and by one goroutine when exclusive
LockModes ==
    /\ mu.writer # NoWriter => mu.readers = {}
    /\ \A g \in Goroutines :
          /\ mu.writer = g <=> pc[g] \in {"add_append", "add_migrate", "add_unlock",
                                          "clear_run", "clear_unlock"}
          /\ g \in mu.readers <=> pc[g] \in {"search_run", "search_runlock"}

\* C16 as claimed: Add and Clear hold the lock exclusively, Search holds it
\* shared, and no GetMessages, Size or Search call runs between the short-term
\* append of an Add and the end of that Add's migration pass.
C16_ReadersWaitForAdd ==
    /\ LockModes
    /\ lastRet.op \in {"GetMessages", "Size", "Search"} => ~lastRet.midAdd

\* the goroutines whose Add has made its short-term append
Appended == {g \in addCalled : pc[g] \notin {"add_lock", "add_append"}}

\* the number of times a message occurs in a sequence
Occurrences(msgs, m) == Cardinality({i \in 1..Len(msgs) : msgs[i] = m})

\* C18: while goroutines add one message each for one user, with GetMessages,
\* Size and Search calls in between and no Clear, the user's bucket holds the
\* message of each goroutine that has appended exactly once and nothing else;
\* once the k Adds have returned, Size is k.
C18_NoLostAppend ==
    calls.clears = 0 =>
        /\ Size(ConcUserID) = Cardinality(Appended)
        /\ \A g \in Goroutines :
              Occurrences(GetMessages(ConcUserID), GoroutineMessage(g))
                 = (IF g \in Appended THEN 1 ELSE 0)
        /\ (\A g \in Goroutines : pc[g] \notin {"add_lock", "add_append",
                                                "add_migrate", "add_unlock"})
              => Size(ConcUserID) = Cardinality(addCalled)

\* every goroutine has added its message while others were calling, Size has
\* just returned their number, and a Search is still running
C18_Witness ==
    /\ calls.clears = 0
    /\ addCalled = Goroutines
    /\ \A g \in Goroutines : pc[g] \in {"idle", "search_rlock", "search_run", "search_runlock"}
    /\ \E g \in Goroutines : pc[g] = "search_run"
    /\ lastRet.op = "Size" /\ lastRet.value = Cardinality(Goroutines) /\ lastRet.overlap

\* the number of query words that occur in the message, the numerator of its
\* text score
TextNum(query, m) == calculateTextSimilarity(ToLower(query), ToLower(m.content)).num

\* a search accounts for message m: its text score is above 0 and, when the
\* text part of its score reaches MinScore and its role passes the filter, it
\* is returned, or the list is full of results that score no less
SeenBySearch(search, m) ==
    LET opts == search.options
        textNum == TextNum(search.query, m)
        part == 10 * textNum * opts.TextWeight
        den == 10 * QueryDen(search.query) * (opts.VectorWeight + opts.TextWeight)
    IN  /\ textNum > 0
        /\ ( /\ 10 * part >= opts.MinScore * den
             /\ (opts.FilterByRole # <<>> => m.role \in Range(opts.FilterByRole)) )
           => \/ \E r \in ResultsOf(search) : r.message = m /\ r.textScore > 0
              \/ /\ Len(search.results) = opts.Limit
                 /\ \A r \in ResultsOf(search) : r.score >= part

\* the migration passes of the Adds made so far for the user have ended: when
\* no collaborator call failed, the candidates of the last pass are stored
MigrationDone(u) ==
    (config.LongTermThreshold > 0 /\ faults = {}) => OldestStored(u)

\* C17 as claimed: every search accounts for every message that was ever added
\* for its user and shares a word with the query, and finds the migrations of
\* the Adds before it ended.
C17_ReadYourWrites ==
    lastSearch.called =>
        /\ \A m \in everAdded[lastSearch.user] :
              SharesWord(lastSearch.query, m.content) => SeenBySearch(lastSearch, m)
        /\ MigrationDone(lastSearch.user)

\* C17 amended: the same for every message added for the user since the last
\* Clear for that user.
C17_ReadYourWritesUntilClear ==
    lastSearch.called =>
        /\ \A m \in Range(addLog[lastSearch.user]) :
              SharesWord(lastSearch.query, m.content) => SeenBySearch(lastSearch, m)
        /\ MigrationDone(lastSearch.user)

\* the search that follows an Add returned the message just added, and the
\* migration pass of that Add has stored an older message of the user
C17_Witness ==
    /\ lastSearch.called
    /\ config.LongTermThreshold > 0 /\ faults = {}
    /\ Len(addLog[lastSearch.user]) > config.LongTermThreshold
    /\ LET log == addLog[lastSearch.user]
       IN  /\ \E r \in ResultsOf(lastSearch) : r.message = log[Len(log)] /\ r.textScore > 0
           /\ written[lastSearch.user][log[1].id] > 0

\* the words of a string, each as the pair of its first and last position: a
\* word is a run of characters other than the space that no such character
\* precedes or follows
WordSpans(str) ==
    { sp \in (1..Len(str)) \X (1..Len(str)) :
        /\ sp[1] <= sp[2]
        /\ \A k \in sp[1]..sp[2] : str[k] # " "
        /\ sp[1] = 1 \/ str[sp[1] - 1] = " "
        /\ sp[2] = Len(str) \/ str[sp[2] + 1] = " " }

LowerOf(c) == CASE c = "A" -> "a" [] c = "B" -> "b" [] OTHER -> c

\* the word at a span, in lower case
LowerWord(str, sp) == [k \in 1..(sp[2] - sp[1] + 1) |-> LowerOf(str[sp[1] + k - 1])]

\* C19: the text score of a message for a query is the number of query words
\* (lower-cased, separated by spaces, counted with their repetitions) that are
\* among the lower-cased words of the message, over the number of query
\* words; it lies between 0 and 1, is 0 for a query without words and when no
\* word is shared, 1 when every query word is in the message, and does not
\* change when the words of the message are repeated.
C19_TextScore ==
    lastScore.called =>
        LET query == lastScore.query
            text == lastScore.text
            score == lastScore.score
            textWords == {LowerWord(text, sp) : sp \in WordSpans(text)}
            shared == {sp \in WordSpans(query) : LowerWord(query, sp) \in textWords}
            n == Cardinality(WordSpans(query))
            twice == calculateTextSimilarity(ToLower(query),
                                             ToLower(text \o <<" ">> \o text))
        IN  /\ 0 <= score.num /\ score.num <= score.den /\ score.den > 0
            /\ n = 0 => score.num = 0
            /\ n > 0 => score.num * n = Cardinality(shared) * score.den
            /\ shared = {} => score.num = 0
            /\ (n > 0 /\ Cardinality(shared) = n) => score.num = score.den
            /\ twice.num * score.den = score.num * twice.den

\* a query of two words in upper and lower case scored one half against a
\* text that repeats the one word they share
C19_Witness ==
    /\ lastScore.called
    /\ lastScore.query # ToLower(lastScore.query)
    /\ Cardinality(WordSpans(lastScore.query)) = 2
    /\ Cardinality(WordSpans(lastScore.text)) = 2
    /\ Cardinality({LowerWord(lastScore.text, sp) : sp \in WordSpans(lastScore.text)}) = 1
    /\ lastScore.score.num = 1 /\ lastScore.score.den = 2

\* the options with Limit and MinScore given and every other field unset
UnsetOptions(limit, minScore) ==
    [ Limit |-> limit, MinScore |-> minScore, VectorWeight |-> 0, TextWeight |-> 0,
      FilterByRole |-> <<>>, IncludeRecent |-> FALSE, RecentCount |-> 0 ]

\* the search just made was a call of Search
ViaSearch ==
    lastSearch.called /\ lastSearch.given = SearchOptionsOf(lastSearch.given.Limit)

\* in the state the search was made in and for its query, limit and user,
\* Search and SearchWithOptions with the other options unset and the given
\* MinScore have the same result lists (one list for each order of the equal
\* scores) for every answer of the long-term query, and what Search returned
\* is one of them
SameAsWithOptions(minScore) ==
    LET query == lastSearch.query
        uid == lastSearch.user
        limit == lastSearch.given.Limit
        outs == QueryOutcomes(lastSearch.given, <<uid>>)
    IN  /\ \A out \in outs :
              SearchResults(query, SearchOptionsOf(limit), uid, out[1], out[2])
                 = SearchResults(query, UnsetOptions(limit, minScore), uid, out[1], out[2])
        /\ \E out \in outs :
              /\ out[1] = lastSearch.ltErr
              /\ lastSearch.results
                    \in SearchResults(query, UnsetOptions(limit, minScore), uid, out[1], out[2])

----------------------------------------------------------------------------
(* The options IncludeRecent and RecentCount *)

\* the n newest messages of a user's short-term bucket
MostRecent(u, n) ==
    LET all == InMemoryGetMessages(shortTerm, u)
    IN  {all[i] : i \in {j \in 1..Len(all) : j > Len(all) - n}}

\* C21 as claimed: a search made with IncludeRecent = TRUE and RecentCount =
\* N > 0 returns each of the N newest short-term messages of its user.
C21_RecentIncluded ==
    (lastSearch.called /\ lastSearch.given.IncludeRecent
                       /\ lastSearch.given.RecentCount > 0) =>
        \A m \in MostRecent(lastSearch.user, lastSearch.given.RecentCount) :
           \E r \in ResultsOf(lastSearch) : r.message = m

----------------------------------------------------------------------------
(* The search scenario *)

\* the search was made when the user's bucket held the scenario's messages
ScenarioSearched ==
    /\ lastSearch.called
    /\ InMemoryGetMessages(shortTerm, lastSearch.user) = ScenarioMessages

\* the results of the search for "quick fox": not empty, in descending order
\* of score, the two messages with a query word first
FoxResults ==
    LET res == lastSearch.results
    IN  /\ Len(res) >= 2
        /\ \A i \in 1..(Len(res) - 1) : res[i].score >= res[i + 1].score
        /\ {res[1].message, res[2].message} = {ScenarioMessages[1], ScenarioMessages[2]}

\* C22 as claimed: with a user, an assistant and a system message in the
\* bucket, Search returns no system message whatever the query, and for
\* "quick fox" the results are not empty, descending and start with the two
\* fox messages.
C22_NoSystemInSearch ==
    ScenarioSearched =>
        /\ \A r \in ResultsOf(lastSearch) : r.message.role # RoleSystem
        /\ lastSearch.query = QuickFox => FoxResults

\* C22 amended: Search returns the system message only for a query that
\* shares a word with it; for "quick fox", which shares none, the results
\* hold no system message, are not empty, descending and start with the two
\* fox messages.
C22_SystemOnlyWhenMatching ==
    ScenarioSearched =>
        /\ \A r \in ResultsOf(lastSearch) :
              r.message.role = RoleSystem
                 => SharesWord(lastSearch.query, r.message.content)
        /\ lastSearch.query = QuickFox =>
              /\ FoxResults
              /\ \A r \in ResultsOf(lastSearch) : r.message.role # RoleSystem

\* the search for "quick fox" was made on the scenario's messages and returned
\* the message with both words ahead of the one with "quick" alone
C22_Witness ==
    /\ ScenarioSearched
    /\ lastSearch.query = QuickFox
    /\ Len(lastSearch.results) = 2
    /\ lastSearch.results[1].message = ScenarioMessages[1]
    /\ lastSearch.results[1].score > lastSearch.results[2].score

----------------------------------------------------------------------------
(* The hook executors *)

\* the position, counted from 1, of the first hook of the list that returns an
\* error in the phase of the call; 0 when none does
FirstFailing(run) ==
    LET failing == {k \in 1..Len(run.hooks) : ExecuteToolHook(run.phase, run.hooks[k]) # "nil"}
    IN  IF failing = {} THEN 0
        ELSE CHOOSE k \in failing : \A j \in failing : k <= j

\* the hooks the call gets to: all of them, or those up to the first failing one
ReachedHooks(run) ==
    IF FirstFailing(run) = 0 THEN 1..Len(run.hooks) ELSE 1..FirstFailing(run)

\* what the call returns: nil exactly when no hook returns an error, else the
\* error of the first failing hook wrapped with its index; the invocations
\* were made in list order
ReturnsFirstError(run) ==
    /\ \A j \in 1..(Len(run.order) - 1) : run.order[j] < run.order[j + 1]
    /\ IF FirstFailing(run) = 0
       THEN run.ret = NilError
       ELSE /\ run.ret # NilError
            /\ run.ret.index = FirstFailing(run) - 1
            /\ run.ret.wraps = ExecuteToolHook(run.phase, run.hooks[FirstFailing(run)])
            /\ run.ret.wraps # "nil"
    /\ \A k \in (1..Len(run.hooks)) \ ReachedHooks(run) : run.invoked[k] = 0

----------------------------------------------------------------------------
(* The merge by message id *)

\* the ids the lexical pass finds for the traced search: a message of the
\* user's bucket has a text score above 0
LexicalIds ==
    {m.id : m \in {x \in Range(InMemoryGetMessages(shortTerm, lastSearch.user)) :
                      TextNum(lastSearch.query, x) > 0}}

\* the ids the vector pass finds: the hits of the long-term query, none when
\* it fails
VectorIds == IF lastSearch.ltErr THEN {} ELSE {h.id : h \in lastMerge.hits}

\* the largest of the vector scores found for an id, 0 for the lexical pass
MaxVectorScore(id) ==
    LET scores == {0} \cup {h.score : h \in {x \in lastMerge.hits : x.id = id}}
    IN  CHOOSE v \in scores : \A w \in scores : v >= w

\* C24: in the result map of a search every id found by a pass has one result
\* and there is no other.  With q the number of query words, text scores in
\* q-ths, vector scores in tenths, scores over den, and the effective weights
\* TW / (TW + VW) and VW / (TW + VW), which add up to 1:
\* found by the lexical pass only: Score = TextScore * textWeight, VectorScore
\* = 0, source "short_term"; by the vector pass only: Score = VectorScore *
\* vectorWeight, TextScore = 0, source "long_term"; by both: VectorScore is
\* the larger vector score and Score = TextScore * textWeight + VectorScore *
\* vectorWeight.
C24_MergeById ==
    lastMerge.called =>
        LET q == QueryDen(lastSearch.query)
            TW == lastSearch.options.TextWeight
            VW == lastSearch.options.VectorWeight
            den == lastMerge.den
            map == lastMerge.resultMap
        IN  /\ {r.message.id : r \in map} = LexicalIds \cup VectorIds
            /\ \A r1, r2 \in map : r1.message.id = r2.message.id => r1 = r2
            /\ \A r \in map :
                  LET id == r.message.id
                  IN  /\ (id \in LexicalIds /\ id \notin VectorIds) =>
                            /\ r.textScore > 0 /\ r.vectorScore = 0
                            /\ r.source = "short_term"
                            /\ r.score * q * (TW + VW) = r.textScore * TW * den
                      /\ (id \in VectorIds /\ id \notin LexicalIds) =>
                            /\ r.textScore = 0
                            /\ r.vectorScore = MaxVectorScore(id)
                            /\ r.source = "long_term"
                            /\ r.score * 10 * (TW + VW) = r.vectorScore * VW * den
                      /\ (id \in LexicalIds /\ id \in VectorIds) =>
                            /\ r.textScore > 0
                            /\ r.vectorScore = MaxVectorScore(id)
                            /\ r.score * 10 * q * (TW + VW)
                                  = (10 * r.textScore * TW + q * r.vectorScore * VW) * den
                  /\ (r.textScore > 0 =>
                         \E m \in Range(InMemoryGetMessages(shortTerm, lastSearch.user)) :
                            m = r.message /\ r.textScore = TextNum(lastSearch.query, m))

\* a search with weights given by the caller found a message in both passes:
\* in the bucket with a text score above 0 and among the hits with a vector
\* score above 0
C24_Witness ==
    /\ lastMerge.called
    /\ lastSearch.given.VectorWeight > 0 /\ lastSearch.given.TextWeight > 0
    /\ \E r \in lastMerge.resultMap :
          /\ r.message.id \in LexicalIds \cap VectorIds
          /\ r.textScore > 0 /\ r.vectorScore > 0

----------------------------------------------------------------------------
(* The truncation to limit *)

\* the limit a search works with: the given one, 5 when that is not positive
EffectiveLimit == IF lastSearch.given.Limit <= 0 THEN 5 ELSE lastSearch.given.Limit

\* a merged candidate passes the MinScore and the role filter of the search
PassesFilters(c) ==
    /\ 10 * c.score >= lastSearch.options.MinScore * lastMerge.den
    /\ (lastSearch.given.FilterByRole # <<>>
           => c.message.role \in Range(lastSearch.given.FilterByRole))

\* C25: a search returns at most limit results (at most 5 when the given
\* limit is not positive), each a merged candidate that passed the filters and
\* none twice, as many as the limit allows, and no candidate that passed the
\* filters and was left out scores more than a returned result.
C25_TopResults ==
    lastMerge.called =>
        LET res == lastSearch.results
            passed == {c \in lastMerge.resultMap : PassesFilters(c)}
        IN  /\ Len(res) <= EffectiveLimit
            /\ \A i \in 1..Len(res) : res[i] \in passed
            /\ \A i, j \in 1..Len(res) : i # j => res[i] # res[j]
            /\ Len(res) = IF Cardinality(passed) > EffectiveLimit
                          THEN EffectiveLimit ELSE Cardinality(passed)
            /\ \A c \in passed \ ResultsOf(lastSearch) :
                  \A r \in ResultsOf(lastSearch) : c.score <= r.score

\* a search without a limit of its own had six candidates that passed the
\* filters, returned five, and left out the one of the lowest score
C25_Witness ==
    /\ lastMerge.called
    /\ lastSearch.given.Limit <= 0
    /\ Cardinality({c \in lastMerge.resultMap : PassesFilters(c)}) = 6
    /\ Len(lastSearch.results) = 5
    /\ \E c \in lastMerge.resultMap :
          /\ PassesFilters(c) /\ c \notin ResultsOf(lastSearch)
          /\ \A r \in ResultsOf(lastSearch) : c.score < r.score

----------------------------------------------------------------------------
(* Migration passes that follow a failed one *)

\* the candidates of the pass the last Add for the user ran
PassedCandidates(uid) ==
    LET all == shortTerm[uid]
        T == config.LongTermThreshold
    IN  IF T > 0 /\ Len(all) > T
        THEN SelectSeq(SubSeq(all, 1, Len(all) - T), IsOrdinary)
        ELSE <<>>

\* what the migration pass of one Add step does with its candidates,
\* whichever lookups, embeddings and batch write of the pass fail
RetryStep ==
    calls'.adds = calls.adds + 1 =>
        \A userID \in UserArgs :
           addLog'[getUserID(userID)] # addLog[getUserID(userID)] =>
              LET uid == getUserID(userID)
                  message == addLog'[uid][Len(addLog'[uid])]
                  cands == CandidatesOf(message, uid)
              IN  /\ Range(PassedCandidates(uid)) \subseteq Range(cands)
                  /\ \A getErr \in SUBSET LookedUp(message, userID),
                     embErr \in SUBSET LookedUp(message, userID),
                     writeOk \in BOOLEAN :
                     Add(message, userID, getErr, embErr, writeOk) =>
                         \A i \in 1..Len(cands) :
                            /\ (cands[i].id \notin DOMAIN longTerm
                                   /\ cands[i].id \notin embErr /\ writeOk)
                                  => cands[i].id \in DOMAIN longTerm'
                            /\ cands[i].id \in DOMAIN longTerm
                                  => written'[uid][cands[i].id]
                                        = written[uid][cands[i].id]

\* C26: a migration that succeeded in part can be tried again.  In every Add,
\* the candidates of the user's pass before are candidates again, each
\* candidate that has no long-term entry yet, whatever passes skipped it
\* before, is written when its embedding and the batch write succeed, and each
\* candidate that has an entry already is not written again.
C26_RetryableMigration == [][RetryStep]_vars

----------------------------------------------------------------------------
(* The order of results of equal score *)

\* C27: a search is deterministic.  The list a search returned is the only
\* list a search with the same query, options and user can return in the same
\* memory state under the same answer of the long-term query, the order of
\* results of equal score and the results kept by the truncation included.
C27_SearchDeterministic ==
    lastMerge.called =>
        \A results \in SearchResults(lastSearch.query, lastSearch.given, lastSearch.user,
                                     lastSearch.ltErr, lastMerge.hits) :
            results = lastSearch.results

----------------------------------------------------------------------------
(* From migration to retrieval *)

\* the message a long-term hit is made into
Reconstructed(vr) == LongTermResult(vr, lastSearch.query, lastSearch.options).message

\* C28: every entry of the long-term store carries the id, the content and the
\* role of a message added for the user the entry names, and the message a
\* search makes from a long-term hit has the id, the content and the role of a
\* message added for the user of the search, the role being assistant instead
\* when the hit carries no role metadata.
C28_RoundTrip ==
    /\ \A i \in DOMAIN longTerm :
          \E u \in Users : \E m \in everAdded[u] :
             longTerm[i] = [id |-> m.id, content |-> m.content,
                            user_id |-> u, role |-> m.role] /\ i = m.id
    /\ lastMerge.called =>
          /\ \A vr \in lastMerge.hits :
                \E m \in everAdded[lastSearch.user] :
                   /\ Reconstructed(vr).id = m.id
                   /\ Reconstructed(vr).content = m.content
                   /\ Reconstructed(vr).role = IF vr.role = "" THEN RoleAssistant ELSE m.role
          /\ \A r \in ResultsOf(lastSearch) :
                r.message \in everAdded[lastSearch.user]
                   \/ \E vr \in lastMerge.hits :
                         vr.role = "" /\ r.message = Reconstructed(vr)

\* a search returned, from the long-term store alone, a message of role user
\* that was added for the user, migrated and then cleared from short-term
C28_Witness ==
    /\ lastMerge.called
    /\ \E r \in ResultsOf(lastSearch) :
          /\ r.source = "long_term"
          /\ r.message \in everAdded[lastSearch.user]
          /\ r.message \notin Range(shortTerm[lastSearch.user])
          /\ r.message.role = RoleUser
          /\ longTerm[r.message.id].user_id = lastSearch.user

----------------------------------------------------------------------------
(* Migration and the other tenants *)

\* C29: migration is isolated by tenant.  As long as no lookup, embedding or
\* batch write has failed, every migration candidate of a user's buffer has
\* been written for that user or has an entry of that user, whatever entries
\* the other users have stored under the same ids.
C29_MigrationTenantIsolated ==
    (inst = "ok" /\ faults = {}) =>
        \A u \in Users : \A m \in Range(PassedCandidates(u)) :
           \/ written[u][m.id] >= 1
           \/ m.id \in DOMAIN longTerm /\ longTerm[m.id].user_id = u

----------------------------------------------------------------------------
(* Calls that wait for each other *)

\* the steps of the call goroutine g is in, the body of a search apart
StepOf(g) ==
    \/ AddLock(g) \/ AddAppend(g) \/ AddUnlock(g)
    \/ \E getErr \in SUBSET ConcLookedUp, embErr \in SUBSET ConcLookedUp,
          writeOk \in BOOLEAN : AddMigrate(g, getErr, embErr, writeOk)
    \/ ClearLock(g) \/ ClearRun(g) \/ ClearUnlock(g)
    \/ SearchRLock(g) \/ SearchRUnlock(g)

\* the call of g can take its next step.  The body of a search has no
\* condition but its place in the call: the long-term query fails or answers,
\* and each answer gives a result list.
CanStep(g) == pc[g] = "search_run" \/ ENABLED StepOf(g)

\* g holds m.mu, in either mode
Holds(g) == mu.writer = g \/ g \in mu.readers

\* g is inside m.mu.Lock() or m.mu.RLock()
Waiting(g) == pc[g] \in {"add_lock", "clear_lock", "search_rlock"}

\* the steps a call has left, at most
StepsLeft(p) ==
    IF p \in {"add_lock"} THEN 4
    ELSE IF p \in {"add_append", "clear_lock", "search_rlock"} THEN 3
    ELSE IF p \in {"add_migrate", "clear_run", "search_run"} THEN 2
    ELSE IF p \in {"add_unlock", "clear_unlock", "search_runlock"} THEN 1
    ELSE 0

\* the calls in progress
Pending == {g \in Goroutines : pc[g] # "idle"}

\* C30: no interleaving of calls on one instance deadlocks.  A goroutine holds
\* m.mu only inside a call, a call that holds m.mu is never inside Lock or
\* RLock and can always take its next step, a call that cannot take its next
\* step is inside Lock or RLock while another call that can take a step holds
\* m.mu, and every step of a call leaves it fewer steps to its return: a call
\* returns after at most four steps of its own, and it is kept waiting only by
\* calls that go on.
C30_NoDeadlock ==
    /\ [](\A g \in Goroutines :
            /\ Holds(g) => g \in Pending /\ ~Waiting(g) /\ CanStep(g)
            /\ (g \in Pending /\ ~CanStep(g))
                  => /\ Waiting(g)
                     /\ \E h \in Pending \ {g} : Holds(h) /\ CanStep(h))
    /\ [][\A g \in Goroutines :
            /\ (pc[g] # "idle" /\ pc'[g] # pc[g])
                  => StepsLeft(pc'[g]) < StepsLeft(pc[g])
            /\ (pc[g] = "idle" /\ pc'[g] = "idle") => (Holds(g)' <=> Holds(g))]_vars

\* an Add holds m.mu for writing in its migration pass while a Search waits in
\* RLock and a Clear waits in Lock
C30_Witness ==
    \E g, h, k \in Goroutines :
       /\ pc[g] = "add_migrate" /\ mu.writer = g
       /\ pc[h] = "search_rlock" /\ ~CanStep(h)
       /\ pc[k] = "clear_lock" /\ ~CanStep(k)

====
